---- MODULE Spec2Model ----
(***************************************************************************)
(* Model of the typed command/query dispatch layer, the structured logger  *)
(* it reports failures to, and the in-memory bus doubles.                  *)
(*                                                                         *)
(* JavaScript values are tagged records ([t |-> "string", v |-> ...]);     *)
(* JavaScript objects are functions whose DOMAIN is the set of own keys.   *)
(* Object identity is the field ref.                                       *)
(***************************************************************************)
EXTENDS Integers, Sequences, FiniteSets, TLC

\* ------------------------------------------------------------------ bounds
MaxCalls == 2          \* execute calls issued on the typed dispatchers
MaxDoubleCalls == 2    \* execute/publish calls issued on an in-memory double
MaxHistoryCalls == 3   \* calls issued on a double in the call-history runs
MaxLoggers == 3        \* BaseLogger instances: the root and its descendants
MaxLogCalls == 1       \* log/debug/warn/error calls made on those loggers
MaxStoreCalls == 4     \* setInstance/getInstance calls made on LoggerStore
MaxArticleCalls == 3   \* handler executes and repository saves on the article module
MaxMemLoggers == 3     \* InMemoryLogger instances: the root and its descendants
MaxMemEntries == 2     \* log/error/warn/debug/verbose/fatal calls on those loggers
MaxPipeCalls == 1      \* ZodValidationPipe.transform calls
MaxCatchCalls == 1     \* failed requests handled by the exception filter

\* ------------------------------------------------------------- variables
VARIABLES
  cfg,         \* the logger profile and LocalLoggerConfig's module lists
  calls,       \* typed dispatcher: one record per execute call, in issue order
  busCalls,    \* what the underlying CommandBus/QueryBus was asked to execute
  errorCalls,  \* the calls made to errorLogger.error, in order
  sink,        \* the records forwarded to the PinoLogger, in order
  dkind,          \* which in-memory double is exercised: command, query, event
  history,        \* executedCommands / executedQueries / publishedEvents
  mockHandlers,   \* constructor name -> mock handler
  defaultResult,
  resultQueue,    \* the one-off results, oldest first
  dcalls,         \* one record per execute/publish call on the double, in issue order
  handlerCalls,   \* the invocations of mock handlers, in order
  loggers,        \* the BaseLogger instances, the root first
  logCalls,       \* one record per log/debug/warn/error call, in order
  instance,       \* LoggerStore.instance
  getCalls,       \* one record per LoggerStore.getInstance call, in order
  memLoggers,     \* the InMemoryLogger instances, the root first
  arrays,         \* the entry arrays those loggers hold references to
  articles,       \* InMemoryArticleRepository.articles
  articleCalls,   \* one record per handler execute call, in order
  catchCalls,     \* one record per BaseFeatureExceptionFilter.catch call
  pipeCalls       \* one record per ZodValidationPipe.transform call

dispatchVars == <<cfg, calls, busCalls, errorCalls, sink>>
doubleVars == <<dkind, history, mockHandlers, defaultResult, resultQueue, dcalls,
                handlerCalls>>
loggerVars == <<loggers, logCalls>>
storeVars == <<instance, getCalls>>
memVars == <<memLoggers, arrays>>
articleVars == <<articles, articleCalls>>
filterVars == <<catchCalls>>
pipeVars == <<pipeCalls>>
appVars == <<storeVars, memVars, articleVars, filterVars, pipeVars>>
vars == <<dispatchVars, doubleVars, loggerVars, appVars>>

\* ------------------------------------------------------------- JS values
Undefined == [t |-> "undefined"]
Null == [t |-> "null"]
Str(s) == [t |-> "string", v |-> s]
Num(n) == [t |-> "number", v |-> n]
Obj(r) == [t |-> "object", ref |-> r]
Plain(fields) == [t |-> "plain", fields |-> fields]     \* an object literal
Err(n, m, r) == [t |-> "Error", name |-> n, message |-> m,
                 stack |-> n \o ": " \o m \o "\n    at <anonymous>", ref |-> r]

\* An object that refers to itself, which JSON.stringify refuses
Circular(r) == [t |-> "circular", ref |-> r]
\* The TypeError the runtime raises
TypeError(m) == Err("TypeError", m, 0)

IsError(v) == v.t = "Error"                    \* v instanceof Error
IsNullish(v) == v.t \in {"undefined", "null"}
EmptyObject == [k \in {} |-> Undefined]

\* {...a, ...b}: the keys of b win
Spread(a, b) == b @@ a
\* o.key, undefined when the key is absent
Get(o, key) == IF key \in DOMAIN o THEN o[key] ELSE Undefined

\* F(x) with x worked out once, as a local constant is in the code
Bind(x, F(_)) == CHOOSE r \in {F(b) : b \in {x}} : TRUE

\* A value (tagged) as opposed to an object held as its own-key function
IsValue(v) == "t" \in DOMAIN v
\* typeof v === 'string'
IsString(v) == IsValue(v) /\ v.t = "string"
\* v ?? {} for optional params, which are undefined or an object
OrEmpty(v) == IF IsValue(v) /\ IsNullish(v) THEN EmptyObject ELSE v

\* `${v}`: the text a template literal makes of a value
ToText(v) ==
  CASE v.t = "string" -> v.v
    [] v.t = "number" -> ToString(v.v)
    [] v.t = "undefined" -> "undefined"
    [] v.t = "null" -> "null"
    [] OTHER -> "[object Object]"

\* parts.join(' ')
RECURSIVE Join(_)
RECURSIVE PrettyMembers(_)
RECURSIVE JoinPath(_)
Join(parts) ==
  IF Len(parts) = 0 THEN ""
  ELSE IF Len(parts) = 1 THEN parts[1]
  ELSE parts[1] \o " " \o Join(Tail(parts))

\* JSON.stringify: what it returns, or the TypeError it throws for a
\* circular structure.  undefined has no JSON text: the result is undefined.
\* Object properties are written in one fixed order.
RECURSIVE JSONText(_)
RECURSIVE JSONMembers(_)
JSONMembers(fields) ==
  IF DOMAIN fields = {} THEN ""
  ELSE LET k == CHOOSE x \in DOMAIN fields : TRUE
           rest == [j \in DOMAIN fields \ {k} |-> fields[j]]
           member == "\"" \o k \o "\":" \o JSONText(fields[k])
       IN IF DOMAIN rest = {} THEN member ELSE member \o "," \o JSONMembers(rest)

JSONText(v) ==
  CASE v.t = "string" -> "\"" \o v.v \o "\""
    [] v.t = "number" -> ToString(v.v)
    [] v.t = "null" -> "null"
    [] v.t = "plain" -> "{" \o JSONMembers(v.fields) \o "}"
    [] OTHER -> "{}"

JSONStringify(v) ==
  IF v.t = "circular"
    THEN [thrown |-> TypeError("Converting circular structure to JSON"),
          value |-> Undefined]
  ELSE IF v.t = "undefined" THEN [thrown |-> Undefined, value |-> Undefined]
  ELSE [thrown |-> Undefined, value |-> Str(JSONText(v))]

\* ------------------------------------------------------- request objects
CommandTypes == {"CreateXCommand"}
QueryTypes == {"GetXQuery"}
TypeNames(bus) == IF bus = "command" THEN CommandTypes ELSE QueryTypes

\* The shapes of a request's own fields: no props at all, props without a
\* correlationId, props with a correlationId and a sensitive field.
FieldChoices ==
  { EmptyObject,
    [props |-> Plain([title |-> Str("t")])],
    [props |-> Plain([correlationId |-> Str("cid-1"), title |-> Str("t"),
                      password |-> Str("hunter2")])] }

Request(r, ctor, fields) == [ref |-> r, ctor |-> ctor, fields |-> fields]

\* Faulty variant: the dispatcher keeps the request of the latest execute call in a
\* field and the catch block reads the correlation id from it
CorrelationIdOfLatest(request) ==
  LET latest == busCalls[Len(busCalls)].request
  IN IF "props" \in DOMAIN latest.fields
       THEN Get(latest.fields.props.fields, "correlationId")
       ELSE Undefined

\* (request as Any).props?.correlationId
CorrelationIdOf(request) ==
  IF "props" \in DOMAIN request.fields
    THEN Get(request.fields.props.fields, "correlationId")
    ELSE Undefined

\* The redactor lives in @/util/stubs; modelled from the spec (4.2): strips
\* known-sensitive keys recursively, pure and idempotent.
SensitiveKeys == {"password", "token", "secret"}
RedactObject(o) ==
  Plain([k \in DOMAIN o.fields |->
           IF k \in SensitiveKeys THEN Str("[REDACTED]") ELSE o.fields[k]])
redactSensitiveData(request) ==
  Plain([k \in DOMAIN request.fields |-> RedactObject(request.fields[k])])

\* ----------------------------------------------------------- BaseLogger
\* LocalLoggerConfig
enabledModules == cfg.enabledModules
disabledModules == cfg.disabledModules
showDataField == TRUE
showErrors == TRUE
showFullRequest == FALSE

Timestamp == Str("<iso-timestamp>")

\* chalk wraps the text in a colour's escape codes
Chalk(colour, text) == "<" \o colour \o ">" \o text \o "</>"

getCloudWatchLevel(level) ==
  CASE level = "fatal" -> "FATAL"
    [] level = "error" -> "ERROR"
    [] level = "warn" -> "WARN"
    [] level \in {"info", "log"} -> "INFO"
    [] OTHER -> "DEBUG"

BaseLogger(extraParams, options) ==
  [extraParams |-> extraParams,
   isLocal |-> IF "isLocal" \in DOMAIN options THEN options.isLocal ELSE FALSE]

\* Faulty variant: the parent's value wins on a key collision
createChildParentWins(logger, context) ==
  BaseLogger(Spread(context, logger.extraParams), [isLocal |-> logger.isLocal])

createChild(logger, context) ==
  BaseLogger(Spread(logger.extraParams, context), [isLocal |-> logger.isLocal])

\* !value for the values a contextual field can hold
IsFalsy(v) ==
  \/ IsNullish(v)
  \/ v.t = "string" /\ v.v = ""
  \/ v.t = "number" /\ v.v = 0

\* Faulty variant: the module filter is applied in the production profile as well
shouldLogEveryProfile(logger) ==
  LET moduleName == Get(logger.extraParams, "moduleName")
  IN IF IsFalsy(moduleName) THEN TRUE
     ELSE IF enabledModules # {} THEN moduleName.v \in enabledModules
     ELSE IF disabledModules # {} THEN moduleName.v \notin disabledModules
     ELSE TRUE

shouldLog(logger) ==
  LET moduleName == Get(logger.extraParams, "moduleName")
  IN IF ~logger.isLocal THEN TRUE
     ELSE IF IsFalsy(moduleName) THEN TRUE
     ELSE IF enabledModules # {} THEN moduleName.v \in enabledModules
     ELSE IF disabledModules # {} THEN moduleName.v \notin disabledModules
     ELSE TRUE

\* req.method and req.url: a property of an object, undefined on any other
\* value that has properties
Prop(v, key) == IF v.t = "plain" THEN Get(v.fields, key) ELSE Undefined

\* `${req.method} ${req.url}`; words is what split(' ') makes of it
RequestLine(method, url) ==
  [t |-> "string", v |-> method \o " " \o url, words |-> <<method, url>>]

\* The colour chalk gives an HTTP method
methodColors ==
  [GET |-> "green", POST |-> "blue", PUT |-> "yellow", DELETE |-> "red",
   PATCH |-> "magenta"]

\* The clean-up of request data (logger.ts 107-117): in the local profile
\* metadata.request is overwritten, in the object the caller passed, by
\* "METHOD url"; reading req.method of null or undefined throws
CleanRequest(logger, metadata) ==
  IF logger.isLocal /\ "request" \in DOMAIN metadata
    THEN LET req == metadata.request
         IN IF showFullRequest THEN [thrown |-> Undefined, metadata |-> metadata]
            ELSE IF IsNullish(req)
              THEN [thrown |-> TypeError("Cannot read properties of "
                                           \o ToText(req) \o " (reading 'method')"),
                    metadata |-> metadata]
            ELSE [thrown |-> Undefined,
                  metadata |-> [metadata EXCEPT
                                  !.request = RequestLine(ToText(Prop(req, "method")),
                                                          ToText(Prop(req, "url")))]]
  ELSE [thrown |-> Undefined, metadata |-> metadata]

\* The local-development rendering of a payload (logger.ts 144-208)
LocalResult(level, payload) ==
  LET modulePart == IF ~IsFalsy(Get(payload, "moduleName"))
                      THEN <<Chalk("white", "[" \o ToText(payload.moduleName) \o "]")>>
                      ELSE <<>>
      classPart == IF ~IsFalsy(Get(payload, "className"))
                     THEN <<Chalk("gray", ToText(payload.className))>>
                     ELSE <<>>
      request == Get(payload, "request")
      requestPart ==
        IF ~IsFalsy(request) /\ IsString(request)
          THEN LET method == request.words[1]
                   url == request.words[2]
                   methodColor == IF method \in DOMAIN methodColors
                                    THEN methodColors[method] ELSE "white"
               IN <<Chalk(methodColor, method) \o Chalk("cyan", " " \o url)>>
          ELSE <<>>
      parts == modulePart \o classPart \o requestPart
      message == IF Len(parts) > 0
                   THEN Str(Join(parts \o <<Chalk("gray", "|")>>) \o " "
                              \o ToText(Get(payload, "message")))
                   ELSE Get(payload, "message")
      base == [msg |-> message]
      withData == IF showDataField /\ "data" \in DOMAIN payload
                    THEN Spread(base, [data |-> payload.data]) ELSE base
  IN IF showErrors /\ level = "error" /\ "error" \in DOMAIN payload
          /\ ~IsFalsy(payload.error)
       THEN Spread(withData, [error |-> payload.error])
       ELSE withData

\* Faulty variant: null and undefined values stay in the payload
KeepNullish(payload) == payload

\* Remove any null/undefined values (logger.ts 213-218)
StripNullish(payload) ==
  [k \in {j \in DOMAIN payload : ~IsNullish(payload[j])} |-> payload[k]]

\* Faulty variant: the contextual fields are left out of the payload
MergeWithoutContext(base, extraParams, metadata) == Spread(base, metadata)

\* { timestamp, level, message, ...this.extraParams, ...metadata }
MergePayload(base, extraParams, metadata) ==
  Spread(Spread(base, extraParams), metadata)

\* Faulty variant: the stack trace is left out of the record
WithoutErrorDetails(level, metadata, payload) == payload

\* payload.stack, payload.errorName, payload.errorMessage (logger.ts 130-139)
WithErrorDetails(level, metadata, payload) ==
  IF level = "error" /\ "error" \in DOMAIN metadata /\ IsError(metadata.error)
    THEN Spread(payload, [stack |-> Str(metadata.error.stack),
                          errorName |-> Str(metadata.error.name),
                          errorMessage |-> Str(metadata.error.message)])
    ELSE payload

\* BaseLogger.buildLogPayload: the payload it returns or the exception it
\* throws, and the optional params as the call leaves them.  The metadata is
\* the caller's object itself unless the params were a string or absent.
buildLogPayload(logger, level, message, optionalParams) ==
  LET metadata == IF IsString(optionalParams) THEN [module |-> optionalParams]
                  ELSE OrEmpty(optionalParams)
      text == IF IsString(message) THEN [thrown |-> Undefined, value |-> message]
              ELSE JSONStringify(message)
  IN Bind(CleanRequest(logger, metadata), LAMBDA cleaned :
     LET after == IF IsValue(optionalParams) THEN optionalParams ELSE cleaned.metadata
     IN
     IF cleaned.thrown # Undefined
       THEN [thrown |-> cleaned.thrown, payload |-> Undefined, params |-> after]
     ELSE IF text.thrown # Undefined
       THEN [thrown |-> text.thrown, payload |-> Undefined, params |-> after]
     ELSE LET base == [timestamp |-> Timestamp,
                       level |-> Str(getCloudWatchLevel(level)),
                       message |-> text.value]
              merged == MergePayload(base, logger.extraParams, cleaned.metadata)
              payload == WithErrorDetails(level, cleaned.metadata, merged)
          IN [thrown |-> Undefined,
              payload |-> IF logger.isLocal THEN LocalResult(level, payload)
                          ELSE StripNullish(payload),
              params |-> after])

\* The PinoLogger method each BaseLogger method forwards to
SinkMethod(method) == IF method = "log" THEN "info" ELSE method

\* Faulty variant: the module filter is not consulted
BaseLoggerLogUnfiltered(logger, method, message, optionalParams) ==
  LET built == buildLogPayload(logger, method, message, optionalParams)
  IN [records |-> IF built.thrown # Undefined THEN <<>>
                  ELSE <<[method |-> SinkMethod(method), payload |-> built.payload]>>,
      thrown |-> built.thrown,
      params |-> built.params]

\* BaseLogger.log / debug / warn: the records forwarded to the sink (none or
\* one), the exception raised if any, and the caller's params afterwards
BaseLoggerLog(logger, method, message, optionalParams) ==
  IF ~shouldLog(logger)
    THEN [records |-> <<>>, thrown |-> Undefined, params |-> optionalParams]
  ELSE Bind(buildLogPayload(logger, method, message, optionalParams),
            LAMBDA built :
              [records |-> IF built.thrown # Undefined THEN <<>>
                           ELSE <<[method |-> SinkMethod(method),
                                   payload |-> built.payload]>>,
               thrown |-> built.thrown,
               params |-> built.params])

\* BaseLogger.error: mergedParams is a new object, so the clean-up of request
\* data does not reach the caller's params
BaseLoggerError(logger, message, err, optionalParams) ==
  IF ~shouldLog(logger)
    THEN [records |-> <<>>, thrown |-> Undefined, params |-> optionalParams]
  ELSE LET mergedParams == Spread(OrEmpty(optionalParams), [error |-> err])
       IN Bind(buildLogPayload(logger, "error", message, mergedParams),
               LAMBDA built :
                 [records |-> IF built.thrown # Undefined THEN <<>>
                              ELSE <<[method |-> "error", payload |-> built.payload]>>,
                  thrown |-> built.thrown,
                  params |-> optionalParams])

\* -------------------------------------------------------- TypedCqrsModule
\* The root logger the framework injects under LOGGER_TOKEN
RootLogger == BaseLogger([appName |-> Str("api")], [isLocal |-> cfg.isLocal])

ErrorLoggerOf(bus) ==
  createChild(RootLogger,
              [moduleName |-> Str("cqrs"),
               className |-> Str(IF bus = "command" THEN "TypedCommandBus"
                                 ELSE "TypedQueryBus")])

\* ------------------------------------------------- TypedCommandBus/QueryBus
\* errorLogger.error(`${commandName} executionFailed`, error, {...})
CommandLogCall(command, error) ==
  LET commandName == command.ctor
      correlationId == CorrelationIdOf(command)
  IN [message |-> Str(commandName \o " executionFailed"),
      error |-> error,
      params |-> [data |-> Plain([commandName |-> Str(commandName),
                                  commandData |-> redactSensitiveData(command)]),
                  correlationId |-> correlationId]]

QueryLogCall(query, error) ==
  LET queryName == query.ctor
      correlationId == CorrelationIdOf(query)
  IN [message |-> Str(queryName \o " executionFailed"),
      error |-> error,
      params |-> [data |-> Plain([queryName |-> Str(queryName),
                                  queryData |-> redactSensitiveData(query)]),
                  correlationId |-> correlationId]]

\* Faulty variant: the catch block throws a new error that wraps the original
TypedCommandBusCatchWrapping(command, error) ==
  [logs |-> IF IsError(error) THEN <<CommandLogCall(command, error)>> ELSE <<>>,
   thrown |-> Err("Error", "Command execution failed", 0),
   steps |-> (IF IsError(error) THEN <<"log">> ELSE <<>>) \o <<"throw">>]

\* Faulty variant: the catch block logs whatever was thrown, Error or not
TypedCommandBusCatchLogAll(command, error) ==
  [logs |-> <<CommandLogCall(command, error)>>, thrown |-> error,
   steps |-> <<"log", "throw">>]

\* The catch block of execute: the logger calls it makes, in order, and the
\* value it throws.  steps lists what it does in program order.
TypedCommandBusCatch(command, error) ==
  [logs |-> IF IsError(error) THEN <<CommandLogCall(command, error)>> ELSE <<>>,
   thrown |-> error,
   steps |-> (IF IsError(error) THEN <<"log">> ELSE <<>>) \o <<"throw">>]

\* Faulty variant: the query is logged as it is, without redaction
TypedQueryBusCatchUnredacted(query, error) ==
  [logs |-> IF IsError(error)
              THEN <<[QueryLogCall(query, error) EXCEPT
                        !.params.data = Plain([queryName |-> Str(query.ctor),
                                               queryData |-> Plain(query.fields)])]>>
              ELSE <<>>,
   thrown |-> error,
   steps |-> (IF IsError(error) THEN <<"log">> ELSE <<>>) \o <<"throw">>]

\* Faulty variant: the error is re-thrown first, which leaves the log call unreachable
TypedQueryBusCatchThrowFirst(query, error) ==
  [logs |-> <<>>, thrown |-> error, steps |-> <<"throw">>]

TypedQueryBusCatch(query, error) ==
  [logs |-> IF IsError(error) THEN <<QueryLogCall(query, error)>> ELSE <<>>,
   thrown |-> error,
   steps |-> (IF IsError(error) THEN <<"log">> ELSE <<>>) \o <<"throw">>]

\* Faulty variant: the function forgets to return the awaited result
ReturnVoid(result) == Undefined

\* The try block after the await: return result (a cast only)
ReturnValue(result) == result

CatchOf(bus, request, error) ==
  IF bus = "command" THEN TypedCommandBusCatch(request, error)
  ELSE TypedQueryBusCatch(request, error)

\* What the underlying bus may produce for call i
ResolveValues(i) == {Undefined, Obj(100 + i)}
RejectValues(i) == {Err("Error", "boom", 200 + i), Str("oops"), Num(42)}

\* execute, up to its await: hand the request to the underlying bus
Execute(bus, ctor, fields) ==
  /\ Len(calls) < MaxCalls
  /\ LET i == Len(calls) + 1
         request == Request(i, ctor, fields)
     IN /\ calls' = Append(calls, [bus |-> bus, request |-> request,
                                   ustate |-> "pending", uvalue |-> Undefined,
                                   state |-> "awaiting", value |-> Undefined,
                                   steps |-> <<"busExecute">>])
        /\ busCalls' = Append(busCalls, [bus |-> bus, request |-> request, call |-> i])
  /\ UNCHANGED <<cfg, errorCalls, sink, doubleVars, loggerVars, appVars>>

\* The underlying bus's operation settles (the environment's step)
UnderlyingResolve(i, v) ==
  /\ i \in DOMAIN calls
  /\ calls[i].ustate = "pending"
  /\ calls' = [calls EXCEPT ![i].ustate = "resolved", ![i].uvalue = v,
                            ![i].steps = Append(@, "underlyingResolved")]
  /\ UNCHANGED <<cfg, busCalls, errorCalls, sink, doubleVars, loggerVars, appVars>>

UnderlyingReject(i, e) ==
  /\ i \in DOMAIN calls
  /\ calls[i].ustate = "pending"
  /\ calls' = [calls EXCEPT ![i].ustate = "rejected", ![i].uvalue = e,
                            ![i].steps = Append(@, "underlyingRejected")]
  /\ UNCHANGED <<cfg, busCalls, errorCalls, sink, doubleVars, loggerVars, appVars>>

\* Faulty variant: execute gives up on the underlying operation (a timeout)
ResumeOnTimeout(i) ==
  /\ i \in DOMAIN calls
  /\ calls[i].state = "awaiting"

\* execute resumes after its await: return the result, or run the catch block
ResumeEnabled(i) ==
  /\ i \in DOMAIN calls
  /\ calls[i].state = "awaiting"
  /\ calls[i].ustate # "pending"

Resume(i) ==
  /\ ResumeEnabled(i)
  /\ IF calls[i].ustate = "resolved"
       THEN /\ calls' = [calls EXCEPT ![i].state = "resolved",
                                      ![i].value = ReturnValue(calls[i].uvalue),
                                      ![i].steps = Append(@, "return")]
            /\ UNCHANGED <<errorCalls, sink>>
       ELSE LET c == calls[i]
                cb == CatchOf(c.bus, c.request, c.uvalue)
                logger == ErrorLoggerOf(c.bus)
                Tag(rec) == Spread(rec, [call |-> i])
                made == [k \in DOMAIN cb.logs |-> Tag(cb.logs[k])]
                out == IF cb.logs = <<>> THEN <<>>
                       ELSE LET l == cb.logs[1]
                            IN Bind(BaseLoggerError(logger, l.message, l.error, l.params).records,
                                    LAMBDA recs : [k \in DOMAIN recs |-> Tag(recs[k])])
            IN /\ calls' = [calls EXCEPT ![i].state = "rejected",
                                         ![i].value = cb.thrown,
                                         ![i].steps = @ \o cb.steps]
               /\ errorCalls' = errorCalls \o made
               /\ sink' = sink \o out
  /\ UNCHANGED <<cfg, busCalls, doubleVars, loggerVars, appVars>>

\* ------------------------------------------------------ in-memory doubles
DoubleTypes == {"Foo", "Bar"}
\* A command, query or event instance: value.ctor is value.constructor.name
Instance(ctor, r) == [t |-> "object", ctor |-> ctor, ref |-> r]

\* Promise.reject(e), an exception in flight, and what a mock handler does
RejectedPromise(e) == [t |-> "promise", state |-> "rejected", reason |-> e]
Thrown(e) == [t |-> "throw", reason |-> e]
IsThenable(v) == v.t = "promise"
Handler(throws, v) == [throws |-> throws, v |-> v]
Invoke(handler, arg) == IF handler.throws THEN Thrown(handler.v) ELSE handler.v

\* How the promise of an async function settles that returns (or throws) v
AsyncOutcome(v) ==
  IF v.t \in {"promise", "throw"} THEN [state |-> "rejected", value |-> v.reason]
  ELSE [state |-> "resolved", value |-> v]

NoHandlers == [n \in {} |-> Handler(FALSE, Undefined)]

\* Faulty variant: the command is recorded once its result is known, so a call that
\* rejects leaves no trace
InMemoryCommandBusExecuteRecordLast(command) ==
  LET returned == IF Len(resultQueue) > 0 THEN Head(resultQueue)
                  ELSE IF command.ctor \in DOMAIN mockHandlers
                    THEN Invoke(mockHandlers[command.ctor], command)
                  ELSE defaultResult
      source == IF Len(resultQueue) > 0 THEN "queue"
                ELSE IF command.ctor \in DOMAIN mockHandlers THEN "handler"
                ELSE "default"
  IN [history |-> IF AsyncOutcome(returned).state = "rejected" THEN history
                  ELSE Append(history, command),
      queue |-> IF Len(resultQueue) > 0 THEN Tail(resultQueue) ELSE resultQueue,
      source |-> source,
      outcome |-> AsyncOutcome(returned),
      late |-> Undefined,
      invoked |-> IF source = "handler"
                    THEN <<[name |-> command.ctor, arg |-> command]>> ELSE <<>>,
      steps |-> <<source, "record">>]

\* InMemoryCommandBus.execute up to its first suspension: the new call history
\* and queue, where the result comes from, how the returned promise settles,
\* and the handler invocations made.
\* Faulty variant: the oldest queued result is read and left in the queue
InMemoryCommandBusExecutePeeks(command) ==
  LET recorded == Append(history, command)
  IN IF Len(resultQueue) > 0
       THEN [history |-> recorded, queue |-> resultQueue,
             source |-> "queue", outcome |-> AsyncOutcome(Head(resultQueue)),
             late |-> Undefined, invoked |-> <<>>, steps |-> <<"record", "queue">>]
     ELSE IF command.ctor \in DOMAIN mockHandlers
       THEN [history |-> recorded, queue |-> resultQueue, source |-> "handler",
             outcome |-> AsyncOutcome(Invoke(mockHandlers[command.ctor], command)),
             late |-> Undefined,
             invoked |-> <<[name |-> command.ctor, arg |-> command]>>,
             steps |-> <<"record", "handler">>]
     ELSE [history |-> recorded, queue |-> resultQueue, source |-> "default",
           outcome |-> AsyncOutcome(defaultResult), late |-> Undefined,
           invoked |-> <<>>, steps |-> <<"record", "default">>]

InMemoryCommandBusExecute(command) ==
  LET recorded == Append(history, command)
  IN IF Len(resultQueue) > 0
       THEN [history |-> recorded, queue |-> Tail(resultQueue),
             source |-> "queue", outcome |-> AsyncOutcome(Head(resultQueue)),
             late |-> Undefined, invoked |-> <<>>, steps |-> <<"record", "queue">>]
     ELSE LET commandName == command.ctor
          IN IF commandName \in DOMAIN mockHandlers
               THEN [history |-> recorded, queue |-> resultQueue,
                     source |-> "handler",
                     outcome |-> AsyncOutcome(Invoke(mockHandlers[commandName], command)),
                     late |-> Undefined,
                     invoked |-> <<[name |-> commandName, arg |-> command]>>,
                     steps |-> <<"record", "handler">>]
               ELSE [history |-> recorded, queue |-> resultQueue,
                     source |-> "default", outcome |-> AsyncOutcome(defaultResult),
                     late |-> Undefined, invoked |-> <<>>,
                     steps |-> <<"record", "default">>]

\* Faulty variant: the newest queued result is taken (pop instead of shift)
InMemoryQueryBusExecuteNewestFirst(query) ==
  LET recorded == Append(history, query)
  IN IF Len(resultQueue) > 0
       THEN [history |-> recorded,
             queue |-> SubSeq(resultQueue, 1, Len(resultQueue) - 1),
             source |-> "queue",
             outcome |-> AsyncOutcome(resultQueue[Len(resultQueue)]),
             late |-> Undefined, invoked |-> <<>>, steps |-> <<"record", "queue">>]
     ELSE IF query.ctor \in DOMAIN mockHandlers
       THEN [history |-> recorded, queue |-> resultQueue, source |-> "handler",
             outcome |-> AsyncOutcome(Invoke(mockHandlers[query.ctor], query)),
             late |-> Undefined,
             invoked |-> <<[name |-> query.ctor, arg |-> query]>>,
             steps |-> <<"record", "handler">>]
     ELSE [history |-> recorded, queue |-> resultQueue, source |-> "default",
           outcome |-> AsyncOutcome(defaultResult), late |-> Undefined,
           invoked |-> <<>>, steps |-> <<"record", "default">>]

InMemoryQueryBusExecute(query) ==
  LET recorded == Append(history, query)
  IN IF Len(resultQueue) > 0
       THEN [history |-> recorded, queue |-> Tail(resultQueue),
             source |-> "queue", outcome |-> AsyncOutcome(Head(resultQueue)),
             late |-> Undefined, invoked |-> <<>>, steps |-> <<"record", "queue">>]
     ELSE LET queryName == query.ctor
          IN IF queryName \in DOMAIN mockHandlers
               THEN [history |-> recorded, queue |-> resultQueue,
                     source |-> "handler",
                     outcome |-> AsyncOutcome(Invoke(mockHandlers[queryName], query)),
                     late |-> Undefined,
                     invoked |-> <<[name |-> queryName, arg |-> query]>>,
                     steps |-> <<"record", "handler">>]
               ELSE [history |-> recorded, queue |-> resultQueue,
                     source |-> "default", outcome |-> AsyncOutcome(defaultResult),
                     late |-> Undefined, invoked |-> <<>>,
                     steps |-> <<"record", "default">>]

\* The promise of publish (Promise<void>): it rejects when the chosen result
\* is a rejected promise or the handler throws, and resolves to undefined
PublishOutcome(result) ==
  IF result.t \in {"promise", "throw"} THEN [state |-> "rejected", value |-> result.reason]
  ELSE [state |-> "resolved", value |-> Undefined]

\* InMemoryEventBus.publish up to its first suspension.  The publication
\* record is pushed first; its result is written at once for a queued or a
\* default result, and after the await (late) for a handler's result.
InMemoryEventBusPublish(event) ==
  LET eventName == event.ctor
      record(result) == [event |-> event, result |-> result]
  IN IF Len(resultQueue) > 0
       THEN [history |-> Append(history, record(Head(resultQueue))),
             queue |-> Tail(resultQueue), source |-> "queue",
             outcome |-> PublishOutcome(Head(resultQueue)),
             late |-> Undefined, invoked |-> <<>>, steps |-> <<"name", "record", "queue">>]
     ELSE IF eventName \in DOMAIN mockHandlers
       THEN LET result == Invoke(mockHandlers[eventName], event)
            IN [history |-> Append(history, record(Undefined)),
                queue |-> resultQueue, source |-> "handler",
                outcome |-> PublishOutcome(result),
                late |-> IF result.t = "throw" THEN Undefined ELSE result,
                invoked |-> <<[name |-> eventName, arg |-> event]>>,
                steps |-> <<"name", "record", "handler">>]
     ELSE [history |-> Append(history, record(defaultResult)),
           queue |-> resultQueue, source |-> "default",
           outcome |-> PublishOutcome(defaultResult),
           late |-> Undefined, invoked |-> <<>>, steps |-> <<"name", "record", "default">>]

\* A class passed to an introspection method: type.name is its name
Class(name) == [t |-> "class", name |-> name]

\* InMemoryCommandBus.getExecutionCount: the length of the history without a
\* type, the number of entries whose constructor.name is the type's name with
InMemoryCommandBusGetExecutionCount(commandType) ==
  IF commandType = Undefined THEN Len(history)
  ELSE LET commandName == commandType.name
       IN Len(SelectSeq(history, LAMBDA cmd : cmd.ctor = commandName))

InMemoryQueryBusGetExecutionCount(queryType) ==
  IF queryType = Undefined THEN Len(history)
  ELSE LET queryName == queryType.name
       IN Len(SelectSeq(history, LAMBDA query : query.ctor = queryName))

getExecutionCount(type) ==
  IF dkind = "query" THEN InMemoryQueryBusGetExecutionCount(type)
  ELSE InMemoryCommandBusGetExecutionCount(type)

\* for (let i = length - 1; i >= 0; i--): the scan from the newest entry
RECURSIVE ScanDown(_, _, _)
ScanDown(list, name, i) ==
  IF i < 1 THEN Undefined
  ELSE IF list[i].ctor = name THEN list[i]
  ELSE ScanDown(list, name, i - 1)

\* The scan from the oldest entry
RECURSIVE ScanUp(_, _, _)
ScanUp(list, name, i) ==
  IF i > Len(list) THEN Undefined
  ELSE IF list[i].ctor = name THEN list[i]
  ELSE ScanUp(list, name, i + 1)

\* Faulty variant: the first executed command of the type is returned
getFirstExecutedCommandOfType(commandType) ==
  ScanUp(history, commandType.name, 1)

getLastExecutedCommandOfType(commandType) ==
  LET commandName == commandType.name
  IN ScanDown(history, commandName, Len(history))

getLastExecutedQueryOfType(queryType) ==
  LET queryName == queryType.name
  IN ScanDown(history, queryName, Len(history))

getLastExecutedOfType(type) ==
  IF dkind = "query" THEN getLastExecutedQueryOfType(type)
  ELSE getLastExecutedCommandOfType(type)

\* InMemoryCommandBus.getLastExecutedCommand: executedCommands[length - 1],
\* which is undefined for an empty history
getLastExecutedCommand ==
  IF Len(history) = 0 THEN Undefined ELSE history[Len(history)]

getLastExecutedQuery ==
  IF Len(history) = 0 THEN Undefined ELSE history[Len(history)]

\* InMemoryEventBus: getPublishCount, publishCount, getLastPublishedEvent
getPublishCount(eventType) ==
  LET eventName == eventType.name
  IN Len(SelectSeq(history, LAMBDA item : item.event.ctor = eventName))

publishCount == Len(history)

getLastPublishedEvent ==
  LET last == IF Len(history) = 0 THEN Undefined ELSE history[Len(history)]
  IN IF last = Undefined THEN Undefined ELSE last.event

\* A call is issued on the double: execute/publish runs up to its suspension
DoubleCall(ctor) ==
  /\ LET i == Len(dcalls) + 1
         value == Instance(ctor, i)
         plan == CASE dkind = "command" -> InMemoryCommandBusExecute(value)
                   [] dkind = "query" -> InMemoryQueryBusExecute(value)
                   [] OTHER -> InMemoryEventBusPublish(value)
     IN /\ history' = plan.history
        /\ resultQueue' = plan.queue
        /\ handlerCalls' = handlerCalls
                             \o [k \in DOMAIN plan.invoked |->
                                   Spread(plan.invoked[k], [call |-> i])]
        /\ dcalls' = Append(dcalls, [value |-> value, source |-> plan.source,
                                     outcome |-> plan.outcome, late |-> plan.late,
                                     steps |-> plan.steps,
                                     settled |-> FALSE, cleared |-> FALSE])
  /\ UNCHANGED <<appVars, loggerVars, dispatchVars, dkind, mockHandlers, defaultResult>>

\* The position in the call history of the record call i pushed
PositionOf(i) == Cardinality({j \in 1..i : ~dcalls[j].cleared})

\* Faulty variant: the history entry of a call moves to the end of the history
\* when the call settles, as if calls were recorded on completion
DoubleSettleReorders(i) ==
  /\ i \in DOMAIN dcalls
  /\ ~dcalls[i].settled
  /\ dcalls' = [dcalls EXCEPT ![i].settled = TRUE]
  /\ history' = IF dcalls[i].cleared THEN history
                ELSE LET k == PositionOf(i)
                     IN SubSeq(history, 1, k - 1)
                          \o SubSeq(history, k + 1, Len(history))
                          \o <<history[k]>>
  /\ UNCHANGED <<appVars, loggerVars, dispatchVars, dkind, mockHandlers, defaultResult, resultQueue,
                 handlerCalls>>

\* The promise returned by call i settles; publish writes a handler's result
\* into its publication record when it resumes
DoubleSettle(i) ==
  /\ i \in DOMAIN dcalls
  /\ ~dcalls[i].settled
  /\ dcalls' = [dcalls EXCEPT ![i].settled = TRUE]
  /\ history' = IF /\ dkind = "event"
                   /\ dcalls[i].source = "handler"
                   /\ dcalls[i].outcome.state = "resolved"
                   /\ ~dcalls[i].cleared
                  THEN [history EXCEPT ![PositionOf(i)].result = dcalls[i].late]
                  ELSE history
  /\ UNCHANGED <<appVars, loggerVars, dispatchVars, dkind, mockHandlers, defaultResult, resultQueue,
                 handlerCalls>>

mockImplementation(type, handler) ==
  /\ mockHandlers' = (type :> handler) @@ mockHandlers
  /\ UNCHANGED <<appVars, loggerVars, dispatchVars, dkind, history, defaultResult, resultQueue, dcalls,
                 handlerCalls>>

mockReturnValue(value) ==
  /\ defaultResult' = value
  /\ UNCHANGED <<appVars, loggerVars, dispatchVars, dkind, history, mockHandlers, resultQueue, dcalls,
                 handlerCalls>>

\* No more one-off results are queued than calls remain to consume them
QueueRoom == Len(resultQueue) + Len(dcalls) < MaxDoubleCalls

mockResolvedValueOnce(value) ==
  /\ QueueRoom
  /\ resultQueue' = Append(resultQueue, value)
  /\ UNCHANGED <<appVars, loggerVars, dispatchVars, dkind, history, mockHandlers, defaultResult, dcalls,
                 handlerCalls>>

mockRejectedValue(error) ==
  /\ QueueRoom
  /\ resultQueue' = Append(resultQueue, RejectedPromise(error))
  /\ UNCHANGED <<appVars, loggerVars, dispatchVars, dkind, history, mockHandlers, defaultResult, dcalls,
                 handlerCalls>>

\* Faulty variant: clear() empties the call history and leaves the configuration
clearHistoryOnly ==
  /\ history' = <<>>
  /\ dcalls' = [i \in DOMAIN dcalls |-> [dcalls[i] EXCEPT !.cleared = TRUE]]
  /\ UNCHANGED <<appVars, loggerVars, dispatchVars, dkind, mockHandlers, defaultResult, resultQueue,
                 handlerCalls>>

clear ==
  /\ history' = <<>>
  /\ mockHandlers' = NoHandlers
  /\ defaultResult' = Undefined
  /\ resultQueue' = <<>>
  /\ dcalls' = [i \in DOMAIN dcalls |-> [dcalls[i] EXCEPT !.cleared = TRUE]]
  /\ UNCHANGED <<appVars, loggerVars, dispatchVars, dkind, handlerCalls>>

\* ------------------------------------------------------ BaseLogger in use
\* The contexts handed to createChild
Contexts ==
  { [a |-> Num(1)],
    [a |-> Num(2), b |-> Num(3)],
    [moduleName |-> Str("moduleA"), className |-> Str("ServiceA")],
    [moduleName |-> Str("moduleB")] }

\* parent.createChild(context): a new instance; the parent is not written
CreateChild(p, context) ==
  /\ p \in DOMAIN loggers
  /\ loggers' = Append(loggers, [logger |-> createChild(loggers[p].logger, context),
                                 parent |-> p, context |-> context])
  /\ UNCHANGED <<dispatchVars, doubleVars, logCalls, appVars>>

ARequest == Plain([method |-> Str("POST"), url |-> Str("/v1/hub/rewards")])

\* The log, debug and warn calls made: plain and non-string messages, params
\* absent, a string, colliding with a contextual field, holding null and
\* undefined values, and holding a request
LogShapes ==
  { [method |-> "log", message |-> Str("hello"), params |-> Undefined],
    [method |-> "debug", message |-> Plain([k |-> Str("v")]), params |-> Str("ctx")],
    [method |-> "warn", message |-> Str("hello"),
     params |-> [a |-> Num(9), entityId |-> Null, functionName |-> Undefined]],
    [method |-> "log", message |-> Str("hello"),
     params |-> [request |-> ARequest, data |-> Plain([n |-> Num(1)])]],
    [method |-> "debug", message |-> Str("hello"), params |-> [request |-> Null]],
    [method |-> "log", message |-> Circular(1), params |-> Undefined] }

\* The error calls made: with an Error (and an older error in the params)
\* and with null
ErrorShapes ==
  { [message |-> Str("failed"), err |-> Err("Error", "boom", 1),
     params |-> [error |-> Err("RangeError", "old", 2), correlationId |-> Str("cid-1")]],
    [message |-> Str("failed"), err |-> Null, params |-> Undefined] }

\* What a call leaves behind: its record, and the records it forwarded
Logged(l, method, message, err, params, out) ==
  LET i == Len(logCalls) + 1
  IN /\ logCalls' = Append(logCalls, [logger |-> l, method |-> method,
                                      message |-> message, err |-> err,
                                      params |-> params, after |-> out.params,
                                      thrown |-> out.thrown])
     /\ sink' = sink \o [k \in DOMAIN out.records |->
                           Spread(out.records[k], [call |-> i])]

\* loggers[l].log / debug / warn (message, params)
LogCall(l, shape) ==
  /\ l \in DOMAIN loggers
  /\ Logged(l, shape.method, shape.message, Undefined, shape.params,
            BaseLoggerLog(loggers[l].logger, shape.method, shape.message, shape.params))
  /\ UNCHANGED <<cfg, calls, busCalls, errorCalls, doubleVars, loggers, appVars>>

\* loggers[l].error(message, err, params)
ErrorCall(l, shape) ==
  /\ l \in DOMAIN loggers
  /\ Logged(l, "error", shape.message, shape.err, shape.params,
            BaseLoggerError(loggers[l].logger, shape.message, shape.err, shape.params))
  /\ UNCHANGED <<cfg, calls, busCalls, errorCalls, doubleVars, loggers, appVars>>

\* ----------------------------------------------------------- LoggerStore
\* The loggers handed to setInstance: BaseLogger objects, told apart by identity
StoreLoggers == {Obj(1), Obj(2)}

NoInstanceError ==
  Err("Error", "No logger instance was set, please set the instance in your main.ts", 0)

\* Faulty variant: hands out whatever the static field holds
getInstanceUnchecked == [thrown |-> Undefined, value |-> instance]

\* LoggerStore.getInstance: the logger, or the exception raised
getInstance ==
  IF ~IsFalsy(instance) THEN [thrown |-> Undefined, value |-> instance]
  ELSE [thrown |-> NoInstanceError, value |-> Undefined]

\* LoggerStore.setInstance(logger)
setInstance(logger) ==
  /\ instance' = logger
  /\ getCalls' = Append(getCalls, [op |-> "set", logger |-> logger,
                                   thrown |-> Undefined, value |-> Undefined])
  /\ UNCHANGED <<dispatchVars, doubleVars, loggerVars, memVars, articleVars,
                 filterVars, pipeVars>>

\* A consumer calls LoggerStore.getInstance()
GetInstanceCall ==
  /\ getCalls' = Append(getCalls, [op |-> "get", logger |-> Undefined,
                                   thrown |-> getInstance.thrown,
                                   value |-> getInstance.value])
  /\ UNCHANGED <<instance, dispatchVars, doubleVars, loggerVars, memVars, articleVars,
                 filterVars, pipeVars>>

\* -------------------------------------------------------- InMemoryLogger
\* An InMemoryLogger holds references to four arrays; arrays is the heap they
\* point into. The PinoLogger it hands to BaseLogger is a no-op and isLocal
\* is left at its default false, so with string messages the super call that
\* ends log/error/warn/debug/verbose/fatal returns without any other effect.
EntryFields == {"logEntries", "errorEntries", "warnEntries", "debugEntries"}

\* new InMemoryLogger(extraParams), its four new arrays placed at at+1..at+4
InMemoryLogger(extraParams, at) ==
  [base |-> BaseLogger(extraParams, [renameContext |-> "InMemoryLogger"]),
   logEntries |-> at + 1, errorEntries |-> at + 2,
   warnEntries |-> at + 3, debugEntries |-> at + 4]

\* InMemoryLogger.createChild: a new logger made to point at this one's arrays
InMemoryCreateChild(logger, context) ==
  [InMemoryLogger(Spread(logger.base.extraParams, context), 0)
     EXCEPT !.logEntries = logger.logEntries,
            !.errorEntries = logger.errorEntries,
            !.warnEntries = logger.warnEntries,
            !.debugEntries = logger.debugEntries]

\* The entries a logger sees
EntriesOf(logger) == [f \in EntryFields |-> arrays[logger[f]]]

\* Which array each method pushes to, and what it pushes
TargetOf(method) ==
  CASE method \in {"log", "verbose"} -> "logEntries"
    [] method \in {"error", "fatal"} -> "errorEntries"
    [] method = "warn" -> "warnEntries"
    [] method = "debug" -> "debugEntries"

EntryOf(method, message, err, params) ==
  CASE method = "error" -> [message |-> message, error |-> err, params |-> params]
    [] method = "fatal" -> [message |-> Str("[FATAL] " \o message.v), error |-> Null,
                            params |-> Undefined]
    [] method = "verbose" -> [message |-> Str("[VERBOSE] " \o message.v),
                              params |-> Undefined]
    [] OTHER -> [message |-> message, params |-> params]

\* entry.params?.correlationId
EntryCorrelationId(entry) ==
  IF IsValue(entry.params) THEN Undefined ELSE Get(entry.params, "correlationId")

\* InMemoryLogger.hasLoggedError: some((entry) => a && b ? c : true), which
\* JavaScript reads as (a && b) ? c : true
hasLoggedError(logger, message, correlationId) ==
  \E k \in DOMAIN arrays[logger.errorEntries] :
    LET entry == arrays[logger.errorEntries][k]
    IN IF entry.message = message /\ ~IsFalsy(EntryCorrelationId(entry))
         THEN EntryCorrelationId(entry) = correlationId
       ELSE TRUE

\* logger.createChild(context) on the p-th logger
MemCreateChild(p, context) ==
  /\ p \in DOMAIN memLoggers
  /\ memLoggers' = Append(memLoggers, InMemoryCreateChild(memLoggers[p], context))
  /\ UNCHANGED <<arrays, dispatchVars, doubleVars, loggerVars, storeVars, articleVars,
                 filterVars, pipeVars>>

\* log / error / warn / debug / verbose / fatal on the l-th logger
MemLogCall(l, method, message, err, params) ==
  /\ l \in DOMAIN memLoggers
  /\ arrays' = [arrays EXCEPT ![memLoggers[l][TargetOf(method)]] =
                   Append(@, EntryOf(method, message, err, params))]
  /\ UNCHANGED <<memLoggers, dispatchVars, doubleVars, loggerVars, storeVars,
                 articleVars, filterVars, pipeVars>>

\* Faulty variant: clear() gives the logger four new arrays
MemClearByReplacing(l) ==
  /\ l \in DOMAIN memLoggers
  /\ memLoggers' = [memLoggers EXCEPT ![l] =
                       [InMemoryLogger(@.base.extraParams, Len(arrays))
                          EXCEPT !.base = memLoggers[l].base]]
  /\ arrays' = arrays \o <<<<>>, <<>>, <<>>, <<>>>>
  /\ UNCHANGED <<dispatchVars, doubleVars, loggerVars, storeVars,
                 articleVars, filterVars, pipeVars>>

\* clear() on the l-th logger: length = 0 on each of its four arrays
MemClear(l) ==
  /\ l \in DOMAIN memLoggers
  /\ arrays' = [r \in DOMAIN arrays |->
                  IF \E f \in EntryFields : memLoggers[l][f] = r THEN <<>>
                  ELSE arrays[r]]
  /\ UNCHANGED <<memLoggers, dispatchVars, doubleVars, loggerVars, storeVars,
                 articleVars, filterVars, pipeVars>>

\* ------------------------------------------------------- article module
\* crypto.randomUUID(): the n-th identifier generated, distinct from every
\* other one and from the identifiers callers supply
GeneratedUuids == <<"uuid-g1", "uuid-g2", "uuid-g3", "uuid-g4",
                    "uuid-g5", "uuid-g6", "uuid-g7", "uuid-g8">>
GivenUuids == {"uuid-a"}
IsUuid(id) == id \in GivenUuids \/ \E n \in DOMAIN GeneratedUuids : GeneratedUuids[n] = id

Now == [t |-> "date"]
ZodError(path) == Err("ZodError", "invalid " \o path, 0)

\* Article.create: ArticlePropsSchema.parse(props), then the constructor
ArticleCreate(props) ==
  IF ~IsUuid(props.id) THEN [thrown |-> ZodError("id"), value |-> Undefined]
  ELSE IF Len(props.title) < 1 THEN [thrown |-> ZodError("title"), value |-> Undefined]
  ELSE [thrown |-> Undefined,
        value |-> [id |-> props.id, title |-> props.title, content |-> props.content,
                   isPublished |-> props.isPublished,
                   createdAt |-> props.createdAt, updatedAt |-> props.updatedAt]]

\* Article.createNew(title, content), uuid being what randomUUID() returns
ArticleCreateNew(uuid, title, content) ==
  ArticleCreate([id |-> uuid, title |-> title, content |-> content,
                 isPublished |-> FALSE, createdAt |-> Now, updatedAt |-> Now])

\* Map.prototype.set: a known key keeps its place, a new key goes last
MapSet(map, key, value) ==
  IF \E k \in DOMAIN map : map[k].key = key
    THEN [k \in DOMAIN map |-> IF map[k].key = key THEN [key |-> key, value |-> value]
                                ELSE map[k]]
  ELSE Append(map, [key |-> key, value |-> value])

\* Faulty variant: the repository keeps one article only
saveOverwrites(map, article) == <<[key |-> article.id, value |-> article]>>

\* InMemoryArticleRepository.save: the map afterwards
save(map, article) == MapSet(map, article.id, article)

\* Faulty variant: finds the first article whatever the id
findFirst(map, id) == IF map = <<>> THEN Null ELSE map[1].value

\* InMemoryArticleRepository.findById: this.articles.get(id) || null
findById(map, id) ==
  IF \E k \in DOMAIN map : map[k].key = id
    THEN (CHOOSE e \in {map[k] : k \in DOMAIN map} : e.key = id).value
  ELSE Null

\* InMemoryArticleRepository.findAll: Array.from(this.articles.values())
findAll(map) == [k \in DOMAIN map |-> map[k].value]

\* The number of identifiers randomUUID() has handed out so far
Generated == Cardinality({k \in DOMAIN articleCalls : articleCalls[k].op = "create"})

\* saved: the article handed to repository.save within the call, if any
ArticleCall(op, input, thrown, value, saved) ==
  [op |-> op, input |-> input, thrown |-> thrown, value |-> value, saved |-> saved]

\* CreateArticleCommandHandler.execute. The repository's save has no await
\* inside: the map is written within the call, before execute first yields.
CreateArticleExecute(title, content) ==
  /\ Generated < Len(GeneratedUuids)
  /\ LET made == ArticleCreateNew(GeneratedUuids[Generated + 1], title, content)
     IN /\ articles' = IF made.thrown # Undefined THEN articles
                        ELSE save(articles, made.value)
        /\ articleCalls' = Append(articleCalls,
              ArticleCall("create", [title |-> title, content |-> content],
                          made.thrown, Undefined, made.value))
  /\ UNCHANGED <<dispatchVars, doubleVars, loggerVars, storeVars, memVars,
                 filterVars, pipeVars>>

\* repository.save(Article.create(props)), as tests and other handlers do
RepositorySave(props) ==
  /\ LET made == ArticleCreate(props)
     IN /\ articles' = IF made.thrown # Undefined THEN articles
                        ELSE save(articles, made.value)
        /\ articleCalls' = Append(articleCalls,
              ArticleCall("save", props, made.thrown, Undefined, made.value))
  /\ UNCHANGED <<dispatchVars, doubleVars, loggerVars, storeVars, memVars,
                 filterVars, pipeVars>>

\* GetArticleQueryHandler.execute: findById reads the map within the call
GetArticleExecute(id) ==
  /\ LET article == findById(articles, id)
     IN articleCalls' = Append(articleCalls,
          IF article = Null
            THEN ArticleCall("get", [id |-> id], Err("Error", "Article not found", 0),
                             Undefined, Undefined)
          ELSE ArticleCall("get", [id |-> id], Undefined, article, Undefined))
  /\ UNCHANGED <<articles, dispatchVars, doubleVars, loggerVars, storeVars, memVars,
                 filterVars, pipeVars>>

\* ------------------------------------------- domain errors and their filter
\* new SomeDomainError(...): BaseDomainError's constructor, options being the
\* object the subclass hands to super (its DOMAIN the keys it sets)
BaseDomainError(className, errorCode, message, options) ==
  Spread(Err(className, message, 0),
         [errorCode |-> errorCode,
          shouldReport |-> IF "shouldReport" \in DOMAIN options
                             THEN options.shouldReport ELSE FALSE,
          correlationId |-> Get(options, "correlationId"),
          metadata |-> Get(options, "metadata"),
          timestamp |-> Now])

\* ArticleNotFoundError
ArticleNotFoundError(articleId, options) ==
  BaseDomainError("ArticleNotFoundError", "ARTICLE_NOT_FOUND",
                  "Article with ID " \o articleId \o " not found",
                  [shouldReport |-> FALSE,
                   correlationId |-> Get(options, "correlationId"),
                   metadata |-> Plain([articleId |-> Str(articleId)])])

\* ArticleAlreadyPublishedError
ArticleAlreadyPublishedError(articleId, options) ==
  BaseDomainError("ArticleAlreadyPublishedError", "ARTICLE_ALREADY_PUBLISHED",
                  "Article with ID " \o articleId \o " is already published",
                  [shouldReport |-> FALSE,
                   correlationId |-> Get(options, "correlationId"),
                   metadata |-> Plain([articleId |-> Str(articleId)])])

\* A domain error whose subclass passes its caller's options on to super:
\* no reporting option, or an explicit one
ArticleStorageError(options) ==
  BaseDomainError("ArticleStorageError", "ARTICLE_STORAGE_FAILED",
                  "Article storage failed", options)

\* The @CorrelationId() decorator: request.headers['x-correlation-id'] || randomUUID()
CorrelationId(request, uuid) ==
  IF ~IsFalsy(Get(request.headers, "x-correlation-id"))
    THEN request.headers["x-correlation-id"]
  ELSE Str(uuid)

\* BaseFeatureExceptionFilter.getCorrelationId
getCorrelationId(request, uuid) ==
  IF ~IsFalsy(Get(request.raw, "correlationId")) THEN request.raw.correlationId
  ELSE IF ~IsFalsy(Get(request.headers, "correlationid"))
    THEN request.headers["correlationid"]
  ELSE Str(uuid)

\* Whether getCorrelationId reaches randomUUID()
FilterGenerates(request) ==
  /\ IsFalsy(Get(request.raw, "correlationId"))
  /\ IsFalsy(Get(request.headers, "correlationid"))

\* mapErrorToStatus of the article module's filter
mapErrorToStatus(error) ==
  IF error.name = "ArticleNotFoundError" THEN 404
  ELSE IF error.name = "ArticleAlreadyPublishedError" THEN 409
  ELSE 500

\* getModuleName(): 'ArticleExceptionFilter' without 'ExceptionFilter', lower-cased
FilterModuleName == "article"

\* The logger the filter's constructor makes
FilterLogger ==
  createChild(RootLogger, [moduleName |-> Str("exception-filter"),
                           className |-> Str("ArticleExceptionFilter")])

\* Faulty variant: catch resolves the id from the request alone
catchCorrelationIdFromRequest(error, request, uuid) == getCorrelationId(request, uuid)

\* catch line 66: error.correlationId || this.getCorrelationId(request)
catchCorrelationId(error, request, uuid) ==
  IF ~IsFalsy(error.correlationId) THEN error.correlationId
  ELSE getCorrelationId(request, uuid)

\* logError: the arguments of this.logger.error
logError(error, correlationId) ==
  [message |-> Str(FilterModuleName \o " Error: " \o error.errorCode \o " | "
                   \o error.message),
   error |-> error,
   params |-> [correlationId |-> correlationId,
               errorCode |-> Str(error.errorCode),
               metadata |-> error.metadata]]

\* shouldReport(error, request, correlationId): the arguments of
\* sentryService.captureException
SentryReport(error, request, correlationId) ==
  [error |-> error,
   context |-> [request |-> [method |-> request.method, url |-> request.url,
                             headers |-> request.headers,
                             requestId |-> correlationId],
                user |-> Undefined,
                extra |-> [errorCode |-> error.errorCode, metadata |-> error.metadata,
                           timestamp |-> error.timestamp],
                tags |-> [error_code |-> error.errorCode, error_type |-> error.name,
                          module |-> FilterModuleName],
                fingerprint |-> <<error.errorCode>>,
                level |-> "error"]]

\* catch lines 72-74: if (error.shouldReport) this.shouldReport(...)
sentryReports(error, request, correlationId) ==
  IF error.shouldReport THEN <<SentryReport(error, request, correlationId)>> ELSE <<>>

\* buildErrorResponse
buildErrorResponse(error, request, statusCode, correlationId) ==
  [type |-> error.errorCode, title |-> error.name, status |-> statusCode,
   detail |-> error.message, instance |-> request.url,
   correlationId |-> correlationId, timestamp |-> Timestamp,
   metadata |-> error.metadata]

\* BaseFeatureExceptionFilter.catch: what it logs, reports and sends
FilterCatch(error, request, uuid) ==
  LET correlationId == catchCorrelationId(error, request, uuid)
      logged == logError(error, correlationId)
      statusCode == mapErrorToStatus(error)
  IN [correlationId |-> correlationId,
      logged |-> logged,
      records |-> BaseLoggerError(FilterLogger, logged.message, logged.error,
                                  logged.params).records,
      sentry |-> sentryReports(error, request, correlationId),
      status |-> statusCode,
      response |-> buildErrorResponse(error, request, statusCode, correlationId)]

\* The identifiers randomUUID() has handed out to the requests handled so far
UuidsUsed ==
  IF catchCalls = <<>> THEN 0 ELSE catchCalls[Len(catchCalls)].uuids

\* One failed request: the controller's @CorrelationId() parameter is
\* resolved, the handler raises a domain error (carrying that id when the
\* handler passes it on), and the filter catches it.
HandleFailedRequest(request, kind, passId) ==
  /\ UuidsUsed + 2 <= Len(GeneratedUuids)
  /\ LET decorated == CorrelationId(request, GeneratedUuids[UuidsUsed + 1])
         options == IF passId THEN [correlationId |-> decorated] ELSE EmptyObject
         error == CASE kind = "not-found" -> ArticleNotFoundError("uuid-a", options)
                    [] kind = "published" -> ArticleAlreadyPublishedError("uuid-a", options)
                    [] kind = "default" -> ArticleStorageError(options)
                    [] kind = "reported" ->
                         ArticleStorageError(Spread(options, [shouldReport |-> TRUE]))
     IN catchCalls' = Append(catchCalls,
          Spread(FilterCatch(error, request, GeneratedUuids[UuidsUsed + 2]),
                 [request |-> request, kind |-> kind, error |-> error,
                  decorated |-> decorated,
                  resolved |-> getCorrelationId(request, GeneratedUuids[UuidsUsed + 2]),
                  uuids |-> UuidsUsed + 2]))
  /\ UNCHANGED <<dispatchVars, doubleVars, loggerVars, storeVars, memVars,
                 articleVars, pipeVars>>

\* ------------------------------------------------------ ZodValidationPipe
\* The schemas in play: CreateArticleSchema (attached to CreateArticleDto by
\* @ZodSchema), a z.string().uuid() for id parameters, and a schema whose
\* refinement throws an ordinary Error
CreateArticleSchema == [name |-> "CreateArticleSchema"]
IdSchema == [name |-> "IdSchema"]
ThrowingSchema == [name |-> "ThrowingSchema"]

Issue(path, message) == [path |-> path, message |-> message]

\* The issues z.string().min(1, required) finds at a key of an object
StringIssues(fields, key, required) ==
  IF key \notin DOMAIN fields THEN <<Issue(<<key>>, "Required")>>
  ELSE IF fields[key].t # "string"
    THEN <<Issue(<<key>>, "Expected string, received " \o fields[key].t)>>
  ELSE IF Len(fields[key].v) < 1 THEN <<Issue(<<key>>, required)>>
  ELSE <<>>

\* schema.parse(value): the parsed value, or what it throws
zParse(schema, value) ==
  CASE schema = CreateArticleSchema ->
         IF value.t # "plain"
           THEN [thrown |-> [t |-> "ZodError",
                             issues |-> <<Issue(<<>>, "Expected object, received "
                                                      \o value.t)>>],
                 value |-> Undefined]
         ELSE LET title == StringIssues(value.fields, "title", "Title is required")
                  tooLong == IF title = <<>> /\ Len(value.fields.title.v) > 100
                               THEN <<Issue(<<"title">>, "Title is too long")>>
                             ELSE <<>>
                  issues == title \o tooLong
                            \o StringIssues(value.fields, "content", "Content is required")
              IN IF issues # <<>>
                   THEN [thrown |-> [t |-> "ZodError", issues |-> issues],
                         value |-> Undefined]
                 ELSE [thrown |-> Undefined,
                       value |-> Plain([k \in {"title", "content"} |-> value.fields[k]])]
    [] schema = IdSchema ->
         IF value.t = "string" /\ IsUuid(value.v)
           THEN [thrown |-> Undefined, value |-> value]
         ELSE [thrown |-> [t |-> "ZodError", issues |-> <<Issue(<<>>, "Invalid uuid")>>],
               value |-> Undefined]
    [] schema = ThrowingSchema ->
         [thrown |-> Err("Error", "lookup failed", 0), value |-> Undefined]

\* issue.path.join('.')
JoinPath(path) ==
  IF Len(path) = 0 THEN ""
  ELSE IF Len(path) = 1 THEN path[1]
  ELSE path[1] \o "." \o JoinPath(Tail(path))

\* CustomZodError.formatZodError: formattedErrors[issue.path.join('.')] = issue.message
formatZodError(zodError) ==
  LET Fold[n \in 0..Len(zodError.issues)] ==
        IF n = 0 THEN <<>>
        ELSE MapSet(Fold[n - 1], JoinPath(zodError.issues[n].path),
                    zodError.issues[n].message)
  IN Fold[Len(zodError.issues)]

\* JSON.stringify(details, null, 2)
PrettyMembers(details) ==
  IF details = <<>> THEN ""
  ELSE "\n  \"" \o details[1].key \o "\": \"" \o details[1].value \o "\""
       \o (IF Len(details) > 1 THEN "," ELSE "\n") \o PrettyMembers(Tail(details))

PrettyJSON(details) == "{" \o PrettyMembers(details) \o "}"

\* new CustomZodValidationException(zodError): a BadRequestException
CustomZodValidationException(zodError) ==
  LET details == formatZodError(zodError)
  IN Spread(Err("CustomZodValidationException",
                "ValidationError: " \o PrettyJSON(details), 0),
            [status |-> 400, details |-> details])

\* validateWithSchema
validateWithSchema(value, schema) ==
  LET parsed == zParse(schema, value)
  IN IF parsed.thrown = Undefined THEN [thrown |-> Undefined, value |-> parsed.value]
     ELSE IF parsed.thrown.t = "ZodError"
       THEN [thrown |-> CustomZodValidationException(parsed.thrown), value |-> Undefined]
     ELSE [thrown |-> parsed.thrown, value |-> Undefined]

\* Reflect.getMetadata(ZOD_SCHEMA_KEY, metatype)
getSchemaFromMetadata(metatype) ==
  IF metatype.name = "CreateArticleDto" THEN CreateArticleSchema ELSE Undefined

ValidatedTypes == {"body", "query", "param"}

\* validateWithMetadata
validateWithMetadata(value, metadata) ==
  IF metadata.type \notin ValidatedTypes THEN [thrown |-> Undefined, value |-> value]
  ELSE IF metadata.metatype = Undefined THEN [thrown |-> Undefined, value |-> value]
  ELSE LET schema == getSchemaFromMetadata(metadata.metatype)
       IN IF schema = Undefined THEN [thrown |-> Undefined, value |-> value]
          ELSE validateWithSchema(value, schema)

\* Faulty variant: @ZodSchema metadata is looked at before the pipe's own schema
transformMetadataFirst(pipe, value, metadata) ==
  IF metadata.type \notin ValidatedTypes THEN [thrown |-> Undefined, value |-> value]
  ELSE IF metadata.metatype # Undefined
          /\ getSchemaFromMetadata(metadata.metatype) # Undefined
    THEN validateWithMetadata(value, metadata)
  ELSE IF pipe.schema # Undefined THEN validateWithSchema(value, pipe.schema)
  ELSE [thrown |-> Undefined, value |-> value]

\* ZodValidationPipe.transform
transform(pipe, value, metadata) ==
  IF metadata.type \notin ValidatedTypes THEN [thrown |-> Undefined, value |-> value]
  ELSE IF pipe.schema # Undefined THEN validateWithSchema(value, pipe.schema)
  ELSE validateWithMetadata(value, metadata)

\* new ZodValidationPipe(schema).transform(value, metadata)
PipeTransform(schema, value, metadata) ==
  /\ LET outcome == transform([schema |-> schema], value, metadata)
     IN pipeCalls' = Append(pipeCalls,
          [schema |-> schema, value |-> value, metadata |-> metadata,
           thrown |-> outcome.thrown, returned |-> outcome.value])
  /\ UNCHANGED <<dispatchVars, doubleVars, loggerVars, storeVars, memVars,
                 articleVars, filterVars>>

\* --------------------------------------------------------- specification
\* Logger configurations: the local profile with every combination of an
\* allow-list and a deny-list with and without 'cqrs', and the production
\* profile with empty and with non-empty lists.
EnabledChoices == {{}, {"cqrs"}, {"shared"}}
DisabledChoices == {{}, {"cqrs"}}
Configs ==
  [isLocal : {TRUE}, enabledModules : EnabledChoices, disabledModules : DisabledChoices]
  \cup {[isLocal |-> FALSE, enabledModules |-> {}, disabledModules |-> {}],
        [isLocal |-> FALSE, enabledModules |-> {"shared"}, disabledModules |-> {"cqrs"}]}

DispatchIdle ==
  /\ calls = <<>>
  /\ busCalls = <<>>
  /\ errorCalls = <<>>
  /\ sink = <<>>

\* A freshly constructed double
DoubleFresh ==
  /\ history = <<>>
  /\ mockHandlers = NoHandlers
  /\ defaultResult = Undefined
  /\ resultQueue = <<>>
  /\ dcalls = <<>>
  /\ handlerCalls = <<>>

\* The logger the application provides, and no call made on it
LoggerIdle ==
  /\ loggers = <<[logger |-> RootLogger, parent |-> 0, context |-> EmptyObject]>>
  /\ logCalls = <<>>

\* LoggerStore before main.ts has run
StoreIdle ==
  /\ instance = Undefined
  /\ getCalls = <<>>

\* new InMemoryLogger(): no context, four empty arrays
MemIdle ==
  /\ memLoggers = <<InMemoryLogger(EmptyObject, 0)>>
  /\ arrays = <<<<>>, <<>>, <<>>, <<>>>>

ArticleIdle ==
  /\ articles = <<>>
  /\ articleCalls = <<>>

FilterIdle == catchCalls = <<>>

PipeIdle == pipeCalls = <<>>

AppIdle ==
  /\ StoreIdle
  /\ MemIdle
  /\ ArticleIdle
  /\ FilterIdle
  /\ PipeIdle

Init ==
  /\ cfg \in Configs
  /\ DispatchIdle
  /\ dkind = "command"
  /\ DoubleFresh
  /\ LoggerIdle
  /\ AppIdle

Next ==
  \/ \E bus \in {"command", "query"} :
       \E ctor \in TypeNames(bus), fields \in FieldChoices : Execute(bus, ctor, fields)
  \/ \E i \in 1..MaxCalls : \E v \in ResolveValues(i) : UnderlyingResolve(i, v)
  \/ \E i \in 1..MaxCalls : \E e \in RejectValues(i) : UnderlyingReject(i, e)
  \/ \E i \in 1..MaxCalls : Resume(i)

Spec == Init /\ [][Next]_vars

\* The event loop runs the continuation of an await whose operation has
\* settled: Resume(i) is taken once it is enabled.
\* Settlement does not depend on the logger configuration or on the shape of
\* the request: the liveness specification fixes the shipped configuration
\* and draws the requests with and without props.
LiveInit ==
  /\ Init
  /\ cfg = [isLocal |-> FALSE, enabledModules |-> {}, disabledModules |-> {}]

LiveNext ==
  \/ \E bus \in {"command", "query"} :
       \E ctor \in TypeNames(bus), fields \in {EmptyObject} : Execute(bus, ctor, fields)
  \/ \E i \in 1..MaxCalls : \E v \in ResolveValues(i) : UnderlyingResolve(i, v)
  \/ \E i \in 1..MaxCalls : \E e \in RejectValues(i) : UnderlyingReject(i, e)
  \/ \E i \in 1..MaxCalls : Resume(i)

LiveSpec ==
  /\ LiveInit
  /\ [][LiveNext]_vars
  /\ \A i \in 1..MaxCalls : WF_vars(Resume(i))

\* The in-memory doubles, each on its own
MockTypes == {"Foo"}
HandlerChoices == {Handler(FALSE, Str("handled")),
                   Handler(TRUE, Err("Error", "handler failed", 2))}
OnceValues == {Str("once")}
QueuedErrors == {Err("Error", "queued failure", 1)}
DefaultValues == {Str("default")}

DoubleInit ==
  /\ cfg = [isLocal |-> FALSE, enabledModules |-> {}, disabledModules |-> {}]
  /\ DispatchIdle
  /\ dkind \in {"command", "query", "event"}
  /\ DoubleFresh
  /\ LoggerIdle
  /\ AppIdle

DoubleNext ==
  \/ \E ctor \in DoubleTypes : Len(dcalls) < MaxDoubleCalls /\ DoubleCall(ctor)
  \/ \E i \in 1..MaxDoubleCalls : DoubleSettle(i)
  \/ \E type \in MockTypes, handler \in HandlerChoices : mockImplementation(type, handler)
  \/ \E value \in DefaultValues : mockReturnValue(value)
  \/ \E value \in OnceValues : mockResolvedValueOnce(value)
  \/ \E error \in QueuedErrors : mockRejectedValue(error)
  \/ clear

DoubleSpec == DoubleInit /\ [][DoubleNext]_vars

\* The doubles under longer runs of overlapping calls: calls of both types,
\* settling in any order, with handlers that return or throw, and clear()
HistoryNext ==
  \/ \E ctor \in DoubleTypes : Len(dcalls) < MaxHistoryCalls /\ DoubleCall(ctor)
  \/ \E i \in 1..MaxHistoryCalls : DoubleSettle(i)
  \/ \E type \in MockTypes, handler \in HandlerChoices : mockImplementation(type, handler)
  \/ clear

HistorySpec == DoubleInit /\ [][HistoryNext]_vars

\* The logger on its own: the local profile with no list, an allow-list, a
\* deny-list and a module on both lists, and the production profile
LoggerConfigs ==
  { [isLocal |-> TRUE, enabledModules |-> {}, disabledModules |-> {}],
    [isLocal |-> TRUE, enabledModules |-> {"moduleA"}, disabledModules |-> {}],
    [isLocal |-> TRUE, enabledModules |-> {"moduleA"}, disabledModules |-> {"moduleA"}],
    [isLocal |-> TRUE, enabledModules |-> {}, disabledModules |-> {"moduleA"}],
    [isLocal |-> FALSE, enabledModules |-> {"moduleA"}, disabledModules |-> {"moduleB"}] }

LoggerInit ==
  /\ cfg \in LoggerConfigs
  /\ DispatchIdle
  /\ dkind = "command"
  /\ DoubleFresh
  /\ LoggerIdle
  /\ AppIdle

LoggerNext ==
  \/ \E p \in 1..MaxLoggers, context \in Contexts :
       Len(loggers) < MaxLoggers /\ CreateChild(p, context)
  \/ \E l \in 1..MaxLoggers, shape \in LogShapes :
       Len(logCalls) < MaxLogCalls /\ LogCall(l, shape)
  \/ \E l \in 1..MaxLoggers, shape \in ErrorShapes :
       Len(logCalls) < MaxLogCalls /\ ErrorCall(l, shape)

LoggerSpec == LoggerInit /\ [][LoggerNext]_vars

\* LoggerStore on its own: main.ts and the consumers in any order
ShippedConfig == [isLocal |-> FALSE, enabledModules |-> {}, disabledModules |-> {}]

StoreInit ==
  /\ cfg = ShippedConfig
  /\ DispatchIdle
  /\ dkind = "command"
  /\ DoubleFresh
  /\ LoggerIdle
  /\ AppIdle

StoreNext ==
  \/ \E logger \in StoreLoggers : Len(getCalls) < MaxStoreCalls /\ setInstance(logger)
  \/ Len(getCalls) < MaxStoreCalls /\ GetInstanceCall

StoreSpec == StoreInit /\ [][StoreNext]_vars

\* The article handlers on the in-memory repository
Titles == {"", "Test Article", "My Article"}
Contents == {"Test content"}
SavedProps ==
  [id : GivenUuids \cup {articles[k].key : k \in DOMAIN articles} \cup {"non-uuid"},
   title : {"Saved", "Edited"}, content : Contents, isPublished : {TRUE},
   createdAt : {Now}, updatedAt : {Now}]
QueriedIds ==
  GivenUuids \cup {GeneratedUuids[1], GeneratedUuids[2], "non-existent-id"}

ArticleInit ==
  /\ cfg = ShippedConfig
  /\ DispatchIdle
  /\ dkind = "command"
  /\ DoubleFresh
  /\ LoggerIdle
  /\ AppIdle

ArticleNext ==
  \/ \E title \in Titles, content \in Contents :
       Len(articleCalls) < MaxArticleCalls /\ CreateArticleExecute(title, content)
  \/ \E props \in SavedProps :
       Len(articleCalls) < MaxArticleCalls /\ RepositorySave(props)
  \/ \E id \in QueriedIds :
       Len(articleCalls) < MaxArticleCalls /\ GetArticleExecute(id)

ArticleSpec == ArticleInit /\ [][ArticleNext]_vars

\* An InMemoryLogger family: children and grandchildren, entries with and
\* without a correlationId, and clear() on any member
MemContexts == {[moduleName |-> Str("moduleA")], [className |-> Str("ServiceA")]}
MemMessages == {Str("boom"), Str("other")}
MemParams == {Undefined, [correlationId |-> Str("cid-1")]}
MemMethods == {"log", "error", "warn", "debug", "fatal"}
MemErrors == {Null}
Entered == Len(arrays[1]) + Len(arrays[2]) + Len(arrays[3]) + Len(arrays[4])

MemInit ==
  /\ cfg = ShippedConfig
  /\ DispatchIdle
  /\ dkind = "command"
  /\ DoubleFresh
  /\ LoggerIdle
  /\ AppIdle

MemNext ==
  \/ \E p \in 1..MaxMemLoggers, context \in MemContexts :
       Len(memLoggers) < MaxMemLoggers /\ MemCreateChild(p, context)
  \/ \E l \in 1..MaxMemLoggers, method \in MemMethods, message \in MemMessages,
          err \in MemErrors, params \in MemParams :
       Entered < MaxMemEntries /\ MemLogCall(l, method, message, err, params)
  \/ \E l \in 1..MaxMemLoggers : MemClear(l)

MemSpec == MemInit /\ [][MemNext]_vars

\* The exception filter: requests with and without each source of a
\* correlation id, and each kind of domain error
RawChoices == {EmptyObject, [correlationId |-> Str("cid-raw")]}
HeaderChoices ==
  {EmptyObject,
   [correlationid |-> Str("cid-hdr")],
   [k \in {"x-correlation-id"} |-> Str("cid-x")],
   [k \in {"x-correlation-id", "correlationid"} |->
      IF k = "correlationid" THEN Str("cid-hdr") ELSE Str("cid-x")]}
FilterRequests ==
  [raw : RawChoices, headers : HeaderChoices, url : {"/articles/uuid-a"},
   method : {"GET"}]
ErrorKinds == {"not-found", "published", "default", "reported"}

FilterInit ==
  /\ cfg \in {ShippedConfig, [isLocal |-> TRUE, enabledModules |-> {}, disabledModules |-> {}]}
  /\ DispatchIdle
  /\ dkind = "command"
  /\ DoubleFresh
  /\ LoggerIdle
  /\ AppIdle

FilterNext ==
  \E request \in FilterRequests, kind \in ErrorKinds, passId \in BOOLEAN :
    Len(catchCalls) < MaxCatchCalls /\ HandleFailedRequest(request, kind, passId)

FilterSpec == FilterInit /\ [][FilterNext]_vars

\* The validation pipe: in manual and in global mode, on every kind of
\* argument, with and without a metatype and an attached schema
PipeSchemas == {Undefined, CreateArticleSchema, IdSchema, ThrowingSchema}
PipeValues ==
  { Plain([title |-> Str("T"), content |-> Str("C")]),
    Plain([title |-> Str(""), content |-> Str("C")]),
    Plain([title |-> Str("T"), content |-> Str("C"), extra |-> Str("x")]),
    Plain([content |-> Str("")]),
    Str("uuid-a"),
    Str("nope") }
ArgumentMetadata ==
  [type : {"body", "query", "param", "custom"},
   metatype : {Undefined, Class("CreateArticleDto"), Class("String")}]

PipeInit ==
  /\ cfg = ShippedConfig
  /\ DispatchIdle
  /\ dkind = "command"
  /\ DoubleFresh
  /\ LoggerIdle
  /\ AppIdle

PipeNext ==
  \E schema \in PipeSchemas, value \in PipeValues, metadata \in ArgumentMetadata :
    Len(pipeCalls) < MaxPipeCalls /\ PipeTransform(schema, value, metadata)

PipeSpec == PipeInit /\ [][PipeNext]_vars

\* ------------------------------------------------------------------ properties
LogsOf(i) == SelectSeq(errorCalls, LAMBDA e : e.call = i)
SinkOf(i) == SelectSeq(sink, LAMBDA r : r.call = i)
BusCallsOf(i) == SelectSeq(busCalls, LAMBDA b : b.call = i)
Settled(c) == c.state # "awaiting"
Failed(c) == c.ustate = "rejected" /\ Settled(c)
FailedWithError(c) == Failed(c) /\ IsError(c.uvalue)

\* props.correlationId read off the request's own fields
OwnCorrelationId(request) ==
  IF "props" \notin DOMAIN request.fields THEN Undefined
  ELSE IF "correlationId" \notin DOMAIN request.fields.props.fields THEN Undefined
  ELSE request.fields.props.fields.correlationId

OwnParams(c) ==
  IF c.bus = "command"
    THEN [data |-> Plain([commandName |-> Str(c.request.ctor),
                          commandData |-> redactSensitiveData(c.request)]),
          correlationId |-> OwnCorrelationId(c.request)]
    ELSE [data |-> Plain([queryName |-> Str(c.request.ctor),
                          queryData |-> redactSensitiveData(c.request)]),
          correlationId |-> OwnCorrelationId(c.request)]

Position(seq, x) == CHOOSE k \in 1..Len(seq) : seq[k] = x
Has(seq, x) == \E k \in 1..Len(seq) : seq[k] = x

\* C1: whenever the underlying bus's operation rejects with a value E (an
\* Error or any other value), the dispatcher's returned operation rejects with
\* that same E (same identity), never a copy, another error or a result.
C1_RejectsWithSameValue ==
  \A i \in DOMAIN calls :
    Failed(calls[i]) => /\ calls[i].state = "rejected"
                        /\ calls[i].value = calls[i].uvalue

C1_Witness ==
  \E i, j \in DOMAIN calls :
    /\ calls[i].state = "rejected" /\ IsError(calls[i].value)
    /\ calls[j].state = "rejected" /\ calls[j].value = Str("oops")

\* C2: when the underlying bus rejects with an Error, the dispatcher calls
\* its logger's error method exactly once for that execute call, with message
\* "<TypeName> executionFailed", the Error itself, data.commandName = TypeName
\* and data.commandData = redact(command) (queryName/queryData for queries)
\* and correlationId = props.correlationId, undefined when props or the id is
\* absent; the absence raises no other error.
C2_ErrorLoggedOnce ==
  \A i \in DOMAIN calls :
    FailedWithError(calls[i]) =>
      /\ Len(LogsOf(i)) = 1
      /\ LogsOf(i)[1].message = Str(calls[i].request.ctor \o " executionFailed")
      /\ LogsOf(i)[1].error = calls[i].uvalue
      /\ LogsOf(i)[1].params = OwnParams(calls[i])
      /\ calls[i].value = calls[i].uvalue

C2_Witness ==
  \E i, j \in DOMAIN calls :
    /\ FailedWithError(calls[i]) /\ calls[i].request.fields = EmptyObject
    /\ Len(LogsOf(i)) = 1 /\ LogsOf(i)[1].params.correlationId = Undefined
    /\ FailedWithError(calls[j]) /\ calls[j].bus = "query"
    /\ OwnCorrelationId(calls[j].request) = Str("cid-1")
    /\ Len(LogsOf(j)) = 1

\* C3: when the underlying bus rejects with a value that is not an Error
\* (a string, a number), the dispatcher makes no call to the logger for that
\* execute call and still re-raises the original value.
C3_NonErrorNotLogged ==
  \A i \in DOMAIN calls :
    (Failed(calls[i]) /\ ~IsError(calls[i].uvalue)) =>
      /\ LogsOf(i) = <<>>
      /\ SinkOf(i) = <<>>
      /\ calls[i].state = "rejected"
      /\ calls[i].value = calls[i].uvalue

C3_Witness ==
  \E i, j \in DOMAIN calls :
    /\ calls[i].state = "rejected" /\ calls[i].value = Num(42)
    /\ calls[j].state = "rejected" /\ calls[j].value = Str("oops")

\* C4: each execute call invokes the underlying bus exactly once, with the
\* very request object it was given (no retry after a failure), and when the
\* underlying operation succeeds with V the dispatcher resolves to exactly V.
C4_DispatchedOnceResultUnchanged ==
  /\ Len(busCalls) = Len(calls)
  /\ \A i \in DOMAIN calls :
       /\ Len(BusCallsOf(i)) = 1
       /\ BusCallsOf(i)[1].request = calls[i].request
       /\ BusCallsOf(i)[1].bus = calls[i].bus
       /\ (calls[i].ustate = "resolved" /\ Settled(calls[i])) =>
            /\ calls[i].state = "resolved"
            /\ calls[i].value = calls[i].uvalue

C4_Witness ==
  \E i, j \in DOMAIN calls :
    /\ calls[i].state = "resolved" /\ calls[i].value = Obj(100 + i)
    /\ calls[j].state = "rejected" /\ Len(BusCallsOf(j)) = 1

\* C5: on a failed dispatch with an Error rejection the error log entry is
\* emitted before the returned operation rejects and after the underlying
\* operation has rejected.
C5_LogBetweenFailureAndRejection ==
  \A i \in DOMAIN calls :
    /\ LogsOf(i) # <<>> =>
         /\ calls[i].ustate = "rejected"
         /\ Has(calls[i].steps, "log")
    /\ Has(calls[i].steps, "log") =>
         /\ Has(calls[i].steps, "underlyingRejected")
         /\ Position(calls[i].steps, "underlyingRejected") < Position(calls[i].steps, "log")
    /\ (calls[i].state = "rejected" /\ IsError(calls[i].value)) =>
         /\ LogsOf(i) # <<>>
         /\ Has(calls[i].steps, "log")
         /\ Position(calls[i].steps, "log") < Position(calls[i].steps, "throw")

C5_Witness ==
  \E i \in DOMAIN calls :
    /\ calls[i].state = "rejected" /\ IsError(calls[i].value)
    /\ calls[i].steps = <<"busExecute", "underlyingRejected", "log", "throw">>

\* C6: the dispatcher's returned operation settles only after the underlying
\* operation has settled (no timeout, no cancellation: while the underlying
\* operation is pending the call neither resolves nor rejects), and once the
\* underlying operation has settled the call eventually resolves or rejects.
C6_SettlesAfterAndOnlyAfter ==
  /\ [](\A i \in DOMAIN calls : Settled(calls[i]) => calls[i].ustate # "pending")
  /\ \A i \in 1..MaxCalls :
       (i \in DOMAIN calls /\ calls[i].ustate # "pending")
         ~> (i \in DOMAIN calls /\ Settled(calls[i]))

C6_Witness ==
  \E i, j \in DOMAIN calls :
    /\ calls[i].ustate = "pending" /\ calls[i].state = "awaiting"
    /\ calls[j].ustate # "pending" /\ Settled(calls[j])

\* The case of C7: a CreateXCommand with props.correlationId = "cid-1" whose
\* underlying operation rejected with an Error, on the command dispatcher
CreateXFailed(c) ==
  /\ c.bus = "command"
  /\ c.request.ctor = "CreateXCommand"
  /\ OwnCorrelationId(c.request) = Str("cid-1")
  /\ FailedWithError(c)

OneProductionRecord(i) ==
  /\ Len(SinkOf(i)) = 1
  /\ SinkOf(i)[1].method = "error"
  /\ LET payload == SinkOf(i)[1].payload
     IN /\ Get(payload, "message") = Str("CreateXCommand executionFailed")
        /\ Get(payload, "correlationId") = Str("cid-1")
        /\ "data" \in DOMAIN payload
        /\ payload.data.fields.commandName = Str("CreateXCommand")

CqrsPassesFilter ==
  IF cfg.enabledModules # {} THEN "cqrs" \in cfg.enabledModules
  ELSE "cqrs" \notin cfg.disabledModules

\* C7 as stated: for every logger configuration the sink receives exactly one
\* error record with message "CreateXCommand executionFailed", correlationId
\* "cid-1" and data.commandName "CreateXCommand".
C7_OneRecordEveryConfiguration ==
  \A i \in DOMAIN calls : CreateXFailed(calls[i]) => OneProductionRecord(i)

\* C7 as amended: that record is forwarded in the production profile, whatever
\* the allow-list and deny-list; in the local profile nothing is forwarded when
\* the module filter excludes 'cqrs', and otherwise one record {msg, data,
\* error} is forwarded whose msg is the message behind the module and class
\* prefix and which has data.commandName but no message or correlationId field.
C7_OneRecordInProduction ==
  \A i \in DOMAIN calls :
    CreateXFailed(calls[i]) =>
      IF ~cfg.isLocal THEN OneProductionRecord(i)
      ELSE IF ~CqrsPassesFilter THEN SinkOf(i) = <<>>
      ELSE /\ Len(SinkOf(i)) = 1
           /\ SinkOf(i)[1].method = "error"
           /\ LET payload == SinkOf(i)[1].payload
              IN /\ DOMAIN payload = {"msg", "data", "error"}
                 /\ payload.msg = Str(Chalk("white", "[cqrs]") \o " "
                                        \o Chalk("gray", "TypedCommandBus") \o " "
                                        \o Chalk("gray", "|")
                                        \o " CreateXCommand executionFailed")
                 /\ payload.data.fields.commandName = Str("CreateXCommand")
                 /\ payload.error = calls[i].uvalue

C7_Witness ==
  /\ ~cfg.isLocal
  /\ cfg.enabledModules = {"shared"}
  /\ \E i \in DOMAIN calls : CreateXFailed(calls[i]) /\ OneProductionRecord(i)

\* C8: for any interleaving of overlapping execute calls on the dispatchers,
\* each call resolves to its own underlying result or rejects with its own
\* underlying error, and each error log entry carries the type name, redacted
\* data and correlationId of the request whose underlying operation failed,
\* never those of another call in flight.
C8_CallsIndependent ==
  /\ \A i \in DOMAIN calls :
       Settled(calls[i]) =>
         /\ calls[i].value = calls[i].uvalue
         /\ calls[i].state = calls[i].ustate
         /\ Len(LogsOf(i)) = IF FailedWithError(calls[i]) THEN 1 ELSE 0
  /\ \A k \in DOMAIN errorCalls :
       LET e == errorCalls[k]
       IN /\ e.call \in DOMAIN calls
          /\ FailedWithError(calls[e.call])
          /\ e.message = Str(calls[e.call].request.ctor \o " executionFailed")
          /\ e.error = calls[e.call].uvalue
          /\ e.params = OwnParams(calls[e.call])

C8_Witness ==
  /\ Len(calls) >= 2
  /\ calls[1].state = "awaiting"
  /\ FailedWithError(calls[2])
  /\ OwnCorrelationId(calls[1].request) # OwnCorrelationId(calls[2].request)
  /\ Len(errorCalls) = 1

\* The values in the call history, oldest first
HistoryValues ==
  IF dkind = "event" THEN [k \in DOMAIN history |-> history[k].event] ELSE history

\* The calls issued since construction or the last clear()
Uncleared == {i \in DOMAIN dcalls : ~dcalls[i].cleared}

\* C9: in each in-memory double every value passed in is appended to the call
\* history before any configured behaviour runs, so the history holds one
\* entry per call even when a call rejects because of a queued rejection or a
\* throwing mock handler.
C9_RecordedBeforeBehaviour ==
  /\ Len(history) = Cardinality(Uncleared)
  /\ \A i \in Uncleared : HistoryValues[PositionOf(i)] = dcalls[i].value
  /\ \A i \in DOMAIN dcalls :
       /\ Has(dcalls[i].steps, "record")
       /\ Position(dcalls[i].steps, "record")
            < Position(dcalls[i].steps, dcalls[i].source)

C9_Witness ==
  /\ Len(history) = 2
  /\ \E i, j \in Uncleared :
       /\ dcalls[i].source = "queue" /\ dcalls[i].outcome.state = "rejected"
       /\ dcalls[j].source = "handler" /\ dcalls[j].outcome.state = "rejected"
       /\ dcalls[i].settled /\ dcalls[j].settled

\* What a call resolves to when the chosen result is v: the bus doubles return
\* v, publish returns nothing
ResolvesTo(v) == IF dkind = "event" THEN Undefined ELSE v

\* C10: in each in-memory double a call takes the oldest one-off result when
\* the queue is non-empty (removing it, and not invoking the mock handler);
\* otherwise the mock handler registered under the value's constructor name is
\* invoked with the value; otherwise the default result is used.  An entry
\* queued by mockRejectedValue(e) makes the call that consumes it reject with
\* e.  A queued entry leaves the queue only through the call that uses it (or
\* clear()), and the outcome chosen for a call is the one it settles with.
C10_OutcomeChoice ==
  [][ /\ \A i \in DOMAIN dcalls :
           /\ dcalls'[i].outcome = dcalls[i].outcome
           /\ dcalls'[i].source = dcalls[i].source
      /\ (Len(resultQueue') < Len(resultQueue)) =>
           \/ Len(dcalls') = Len(dcalls) + 1 /\ Len(resultQueue') = Len(resultQueue) - 1
           \/ resultQueue' = <<>> /\ history' = <<>>
      /\ (Len(dcalls') = Len(dcalls) + 1) =>
           LET c == dcalls'[Len(dcalls')]
           IN IF resultQueue # <<>>
                THEN /\ c.source = "queue"
                     /\ resultQueue' = Tail(resultQueue)
                     /\ handlerCalls' = handlerCalls
                     /\ c.outcome =
                          IF IsThenable(Head(resultQueue))
                            THEN [state |-> "rejected", value |-> Head(resultQueue).reason]
                            ELSE [state |-> "resolved",
                                  value |-> ResolvesTo(Head(resultQueue))]
              ELSE IF c.value.ctor \in DOMAIN mockHandlers
                THEN /\ c.source = "handler"
                     /\ resultQueue' = <<>>
                     /\ handlerCalls' = Append(handlerCalls,
                                               [name |-> c.value.ctor, arg |-> c.value,
                                                call |-> Len(dcalls')])
                     /\ c.outcome =
                          IF mockHandlers[c.value.ctor].throws
                            THEN [state |-> "rejected",
                                  value |-> mockHandlers[c.value.ctor].v]
                            ELSE [state |-> "resolved",
                                  value |-> ResolvesTo(mockHandlers[c.value.ctor].v)]
              ELSE /\ c.source = "default"
                   /\ resultQueue' = <<>>
                   /\ handlerCalls' = handlerCalls
                   /\ c.outcome = [state |-> "resolved",
                                   value |-> ResolvesTo(defaultResult)]
    ]_vars

C10_Witness ==
  \E i, j \in DOMAIN dcalls :
    /\ i < j
    /\ dcalls[i].source = "queue" /\ dcalls[i].outcome.state = "rejected"
    /\ dcalls[i].settled
    /\ dcalls[j].source = "handler" /\ dcalls[j].outcome.state = "resolved"
    /\ dcalls[j].settled
    /\ \A h \in DOMAIN handlerCalls : handlerCalls[h].call = j

\* The calls since construction or the last clear() whose value has type name
OfType(name) == {i \in Uncleared : dcalls[i].value.ctor = name}
Max(S) == CHOOSE m \in S : \A n \in S : n <= m

\* C11: after any sequence of execute calls on an in-memory command or query
\* bus since construction or the last clear(), getExecutionCount() is the
\* number of calls, getExecutionCount(T) is the number of calls whose value's
\* constructor name is T's name, and getLastExecuted...OfType(T) is the most
\* recently executed value of type T, or undefined when there is none.
C11_CountsAndLastOfType ==
  dkind # "event" =>
    /\ getExecutionCount(Undefined) = Cardinality(Uncleared)
    /\ \A name \in DoubleTypes :
         /\ getExecutionCount(Class(name)) = Cardinality(OfType(name))
         /\ getLastExecutedOfType(Class(name)) =
              IF OfType(name) = {} THEN Undefined
              ELSE dcalls[Max(OfType(name))].value

\* Calls Bar, Foo, Bar: counts 3 and 1, the last Bar is the third call
C11_Witness ==
  /\ dkind = "command"
  /\ Len(dcalls) = 3 /\ Uncleared = {1, 2, 3}
  /\ dcalls[1].value.ctor = "Bar"
  /\ dcalls[2].value.ctor = "Foo"
  /\ dcalls[3].value.ctor = "Bar"
  /\ getExecutionCount(Undefined) = 3
  /\ getExecutionCount(Class("Foo")) = 1
  /\ getLastExecutedCommandOfType(Class("Bar")) = dcalls[3].value
  /\ getLastExecutedCommandOfType(Class("Bar")) # dcalls[1].value

\* What the next call would do, and the introspection of the double in use
PlanOf(value) ==
  CASE dkind = "command" -> InMemoryCommandBusExecute(value)
    [] dkind = "query" -> InMemoryQueryBusExecute(value)
    [] OTHER -> InMemoryEventBusPublish(value)

TotalCount == IF dkind = "event" THEN publishCount ELSE getExecutionCount(Undefined)
CountOfType(type) == IF dkind = "event" THEN getPublishCount(type) ELSE getExecutionCount(type)
LastCall ==
  CASE dkind = "command" -> getLastExecutedCommand
    [] dkind = "query" -> getLastExecutedQuery
    [] OTHER -> getLastPublishedEvent

\* The state of a freshly constructed double, as its operations show it
LooksFresh ==
  /\ history = <<>>
  /\ TotalCount = 0
  /\ \A name \in DoubleTypes : CountOfType(Class(name)) = 0
  /\ LastCall = Undefined
  /\ dkind # "event" =>
       \A name \in DoubleTypes : getLastExecutedOfType(Class(name)) = Undefined
  /\ DOMAIN mockHandlers = {}
  /\ defaultResult = Undefined
  /\ resultQueue = <<>>
  /\ \A name \in DoubleTypes :
       LET value == Instance(name, 0)
           plan == PlanOf(value)
       IN /\ plan.source = "default"
          /\ plan.invoked = <<>>
          /\ plan.outcome = [state |-> "resolved", value |-> Undefined]
          /\ plan.history = IF dkind = "event"
                              THEN <<[event |-> value, result |-> Undefined]>>
                              ELSE <<value>>

\* C12: clear() on an in-memory double (command, query or event) returns it
\* to its freshly constructed state whatever came before: empty call history
\* (all counts 0, last call undefined), no mock handler, default result
\* undefined, empty one-off queue, so that a call made after clear() resolves
\* to undefined and is the only entry in the history; a call still in flight
\* when clear() ran adds nothing to the new history when it settles.
C12_ClearResets ==
  [][ /\ clear => LooksFresh'
      /\ \A i \in DOMAIN dcalls :
           (dcalls[i].cleared /\ ~dcalls[i].settled /\ dcalls'[i].settled)
             => history' = history
    ]_vars

\* A handler was registered and invoked, then clear() ran, and the call made
\* after it is the only entry and resolved to undefined
C12_Witness ==
  /\ Len(dcalls) = 2
  /\ dcalls[1].cleared /\ dcalls[1].source = "handler"
  /\ ~dcalls[2].cleared /\ dcalls[2].source = "default"
  /\ dcalls[2].settled
  /\ dcalls[2].outcome = [state |-> "resolved", value |-> Undefined]
  /\ HistoryValues = <<dcalls[2].value>>
  /\ TotalCount = 1

\* The values of the calls issued since the last clear(), in issue order
RECURSIVE IssuedFrom(_)
IssuedFrom(i) ==
  IF i > Len(dcalls) THEN <<>>
  ELSE IF dcalls[i].cleared THEN IssuedFrom(i + 1)
  ELSE <<dcalls[i].value>> \o IssuedFrom(i + 1)

\* C13: when several execute/publish calls are issued on one in-memory double
\* without awaiting each other, the call history lists the values in the order
\* the calls were issued, not in the order their outcomes settle: issuing a
\* call appends its value at the end of the history, and the settlement of a
\* call, in whatever order, leaves the order of the history as it was.
C13_HistoryInCallOrder ==
  /\ [](HistoryValues = IssuedFrom(1))
  /\ [][ /\ (Len(dcalls') = Len(dcalls) + 1) =>
              HistoryValues' = Append(HistoryValues, dcalls'[Len(dcalls')].value)
         /\ (\E i \in DOMAIN dcalls : ~dcalls[i].settled /\ dcalls'[i].settled) =>
              HistoryValues' = HistoryValues
       ]_vars

\* Three overlapping calls of which the last has settled, the second was
\* rejected by a throwing handler and the first is still pending
C13_Witness ==
  /\ Len(dcalls) = 3 /\ Uncleared = {1, 2, 3}
  /\ ~dcalls[1].settled
  /\ dcalls[2].settled /\ dcalls[2].outcome.state = "rejected"
  /\ dcalls[3].settled
  /\ dcalls[1].value.ctor = "Bar" /\ dcalls[3].value.ctor = "Foo"
  /\ HistoryValues = <<dcalls[1].value, dcalls[2].value, dcalls[3].value>>

\* The contextual fields of logger i as its chain of createChild calls gives
\* them: the root's fields overridden by each context in turn
RECURSIVE ChainFields(_)
ChainFields(i) ==
  IF loggers[i].parent = 0 THEN [appName |-> Str("api")]
  ELSE LET up == ChainFields(loggers[i].parent)
           ctx == loggers[i].context
       IN [k \in DOMAIN up \cup DOMAIN ctx |->
             IF k \in DOMAIN ctx THEN ctx[k] ELSE up[k]]

\* C14: createChild(context) returns a new logger whose contextual fields are
\* the parent's fields overridden by context (the child's value wins on a key
\* collision) and which keeps the parent's profile; no logger's contextual
\* fields or profile change through a createChild call or a log call made on
\* any logger afterwards, for chains and siblings in any interleaving.
C14_ChildMergesParentUntouched ==
  /\ [](\A i \in DOMAIN loggers :
          /\ loggers[i].logger.extraParams = ChainFields(i)
          /\ loggers[i].logger.isLocal = cfg.isLocal
          /\ loggers[i].parent # 0 =>
               LET parent == loggers[loggers[i].parent].logger
                   context == loggers[i].context
                   child == loggers[i].logger
               IN /\ DOMAIN child.extraParams
                       = DOMAIN parent.extraParams \cup DOMAIN context
                  /\ \A k \in DOMAIN context : child.extraParams[k] = context[k]
                  /\ \A k \in DOMAIN parent.extraParams \ DOMAIN context :
                       child.extraParams[k] = parent.extraParams[k]
                  /\ child.isLocal = parent.isLocal)
  /\ [][\A i \in DOMAIN loggers : loggers'[i] = loggers[i]]_vars

\* A chain of two children colliding on a, and a call made on the inner one:
\* the outer child still has its own a
C14_Witness ==
  /\ Len(loggers) = 3
  /\ loggers[2].parent = 1 /\ loggers[2].context = [a |-> Num(1)]
  /\ loggers[3].parent = 2 /\ loggers[3].context = [a |-> Num(2), b |-> Num(3)]
  /\ loggers[3].logger.extraParams = [appName |-> Str("api"), a |-> Num(2), b |-> Num(3)]
  /\ loggers[2].logger.extraParams = [appName |-> Str("api"), a |-> Num(1)]
  /\ Len(logCalls) = 1 /\ logCalls[1].logger = 3

\* The params of a call as buildLogPayload merges them
ParamsOf(c) ==
  LET given == IF IsString(c.params) THEN [module |-> c.params]
               ELSE IF IsValue(c.params) THEN EmptyObject ELSE c.params
  IN IF c.method = "error"
       THEN [k \in DOMAIN given \cup {"error"} |->
               IF k = "error" THEN c.err ELSE given[k]]
       ELSE given

\* The records call i forwarded to the sink
ForwardedBy(i) == SelectSeq(sink, LAMBDA r : r.call = i)

\* C15 as stated: the record a log call on a logger forwards to the sink
\* includes every contextual field of the logger's chain, with the innermost
\* value where keys collide (for calls whose own params name none of them).
C15_RecordHasChainFields ==
  \A i \in DOMAIN logCalls :
    \A k \in DOMAIN ForwardedBy(i) :
      LET fields == ChainFields(logCalls[i].logger)
          payload == ForwardedBy(i)[k].payload
      IN DOMAIN ParamsOf(logCalls[i]) \cap DOMAIN fields = {} =>
           \A f \in DOMAIN fields : f \in DOMAIN payload /\ payload[f] = fields[f]

\* C15 as amended: in the production profile the forwarded record includes
\* every contextual field of the chain (innermost value on a collision, plus
\* the fields of the parent beyond those) that is not null or undefined and
\* that the call's own params do not name; in the local profile the record
\* has only msg, data and error, and carries no contextual field as a field.
C15_ChainFieldsInProduction ==
  \A i \in DOMAIN logCalls :
    \A k \in DOMAIN ForwardedBy(i) :
      LET fields == ChainFields(logCalls[i].logger)
          payload == ForwardedBy(i)[k].payload
      IN IF cfg.isLocal
           THEN /\ DOMAIN payload \subseteq {"msg", "data", "error"}
                /\ DOMAIN payload \cap DOMAIN fields = {}
           ELSE \A f \in DOMAIN fields \ DOMAIN ParamsOf(logCalls[i]) :
                  IF IsNullish(fields[f]) THEN f \notin DOMAIN payload
                  ELSE f \in DOMAIN payload /\ payload[f] = fields[f]

\* parent.createChild({a:1}).createChild({a:2,b:3}).log("hello") in production
C15_Witness ==
  /\ ~cfg.isLocal
  /\ Len(loggers) = 3
  /\ loggers[2].parent = 1 /\ loggers[2].context = [a |-> Num(1)]
  /\ loggers[3].parent = 2 /\ loggers[3].context = [a |-> Num(2), b |-> Num(3)]
  /\ Len(logCalls) = 1 /\ logCalls[1].logger = 3 /\ logCalls[1].method = "log"
  /\ logCalls[1].params = Undefined
  /\ Len(sink) = 1
  /\ sink[1].payload.a = Num(2) /\ sink[1].payload.b = Num(3)
  /\ sink[1].payload.appName = Str("api")

\* The filter of C16, from the logger's chain and the configured lists
ModuleOf(l) == Get(ChainFields(l), "moduleName")
FilterPasses(l) ==
  \/ ~cfg.isLocal
  \/ "moduleName" \notin DOMAIN ChainFields(l)
  \/ cfg.enabledModules # {} /\ ModuleOf(l).v \in cfg.enabledModules
  \/ /\ cfg.enabledModules = {}
     /\ cfg.disabledModules = {} \/ ModuleOf(l).v \notin cfg.disabledModules

Severity == [log |-> "info", debug |-> "debug", warn |-> "warn", error |-> "error"]

LevelLabel == [log |-> "INFO", debug |-> "DEBUG", warn |-> "WARN", error |-> "ERROR"]

\* The message of a record: the string itself, or the JSON text of the value
MessageText(message) ==
  IF message = Str("hello") \/ message = Str("failed") THEN message
  ELSE IF message = Plain([k |-> Str("v")]) THEN Str("{\"k\":\"v\"}")
  ELSE Undefined

\* The value the merge gives key k: the call's params first, then the
\* contextual fields, then level, timestamp and message
MergedValue(c, k) ==
  LET params == ParamsOf(c)
      fields == ChainFields(c.logger)
  IN IF c.method = "error" /\ IsError(c.err)
        /\ k \in {"stack", "errorName", "errorMessage"}
       THEN Str(CASE k = "stack" -> c.err.stack
                  [] k = "errorName" -> c.err.name
                  [] OTHER -> c.err.message)
     ELSE IF k \in DOMAIN params THEN params[k]
     ELSE IF k \in DOMAIN fields THEN fields[k]
     ELSE IF k = "level" THEN Str(LevelLabel[c.method])
     ELSE IF k = "timestamp" THEN Timestamp
     ELSE IF k = "message" THEN MessageText(c.message)
     ELSE Undefined

MergedKeys(c) ==
  {"level", "timestamp", "message"} \cup DOMAIN ChainFields(c.logger)
    \cup DOMAIN ParamsOf(c)
    \cup (IF c.method = "error" /\ IsError(c.err)
            THEN {"stack", "errorName", "errorMessage"} ELSE {})

\* C17: in the production profile the record forwarded for a log call is the
\* merge, lowest precedence first, of the level label (INFO for log, DEBUG,
\* WARN, ERROR, FATAL), the timestamp and the message, then the logger's
\* contextual fields, then the call-specific params (a call-specific value
\* wins over a contextual field with the same key), with every key removed
\* whose value is null or undefined: no forwarded production record has a
\* null or undefined value.
C17_ProductionRecord ==
  /\ getCloudWatchLevel("fatal") = "FATAL"
  /\ ~cfg.isLocal =>
       \A i \in DOMAIN logCalls :
         \A n \in DOMAIN ForwardedBy(i) :
           LET c == logCalls[i]
               payload == ForwardedBy(i)[n].payload
           IN /\ DOMAIN payload = {k \in MergedKeys(c) : ~IsNullish(MergedValue(c, k))}
              /\ \A k \in DOMAIN payload :
                   /\ ~IsNullish(payload[k])
                   /\ payload[k] = MergedValue(c, k)

\* warn("hello", {a: 9, entityId: null, functionName: undefined}) on a logger
\* whose context has a: the call's a wins, the null and undefined keys are gone
C17_Witness ==
  /\ ~cfg.isLocal
  /\ \E i \in DOMAIN logCalls :
       /\ logCalls[i].method = "warn"
       /\ "a" \in DOMAIN ChainFields(logCalls[i].logger)
       /\ Len(ForwardedBy(i)) = 1
       /\ LET payload == ForwardedBy(i)[1].payload
          IN /\ payload.a = Num(9)
             /\ payload.level = Str("WARN")
             /\ payload.message = Str("hello")
             /\ "entityId" \notin DOMAIN payload
             /\ "functionName" \notin DOMAIN payload

C19_NeverThrows ==
  \A i \in DOMAIN logCalls :
    /\ logCalls[i].thrown = Undefined
    /\ (~cfg.isLocal /\ ~IsString(logCalls[i].message)) =>
         \A n \in DOMAIN ForwardedBy(i) :
           Get(ForwardedBy(i)[n].payload, "message") = Str(JSONText(logCalls[i].message))

\* A call that raised a TypeError and forwarded nothing
C19_Witness ==
  \E i \in DOMAIN logCalls :
    /\ IsError(logCalls[i].thrown)
    /\ logCalls[i].thrown.name = "TypeError"
    /\ FilterPasses(logCalls[i].logger)
    /\ ForwardedBy(i) = <<>>

\* C20: a log, debug, warn or error call changes nothing except forwarding at
\* most one record to the sink: the optional-params object passed by the
\* caller is the same after the call as before it, in either profile, and a
\* call that is filtered out forwards nothing and changes nothing.
C20_OnlyForwards ==
  \A i \in DOMAIN logCalls :
    /\ logCalls[i].after = logCalls[i].params
    /\ Len(ForwardedBy(i)) <= 1
    /\ ~FilterPasses(logCalls[i].logger) => ForwardedBy(i) = <<>>

\* log("hello", {request, data}) in the local profile: the caller's request
\* is now the text "POST /v1/hub/rewards"
C20_Witness ==
  \E i \in DOMAIN logCalls :
    /\ logCalls[i].method = "log"
    /\ "request" \in DOMAIN logCalls[i].params
    /\ logCalls[i].params.request = ARequest
    /\ logCalls[i].after.request.v = "POST /v1/hub/rewards"
    /\ logCalls[i].after.data = logCalls[i].params.data
    /\ Len(ForwardedBy(i)) = 1

\* C21: LoggerStore.getInstance() raises an error when no setInstance call
\* came before it, and otherwise returns the logger of the latest setInstance
\* call without raising.
SetsBefore(i) == {j \in 1..(i - 1) : getCalls[j].op = "set"}

C21_GetInstanceAfterSet ==
  \A i \in DOMAIN getCalls :
    getCalls[i].op = "get" =>
      IF SetsBefore(i) = {}
        THEN /\ getCalls[i].thrown.t = "Error"
             /\ getCalls[i].value = Undefined
        ELSE /\ getCalls[i].thrown = Undefined
             /\ getCalls[i].value = getCalls[Max(SetsBefore(i))].logger

\* getInstance raised before main.ts ran, and later returned the second of
\* two loggers set
C21_Witness ==
  \E i, j, k, m \in DOMAIN getCalls :
    /\ i < j /\ j < k /\ k < m
    /\ getCalls[i].op = "get" /\ getCalls[i].thrown # Undefined
    /\ getCalls[j].op = "set" /\ getCalls[k].op = "set"
    /\ getCalls[j].logger # getCalls[k].logger
    /\ getCalls[m].op = "get" /\ getCalls[m].value = getCalls[k].logger

\* C22: each successful CreateArticleCommandHandler.execute adds exactly one
\* new article, carrying the command's title and content with isPublished
\* false, and leaves every earlier article as it was; after n successful
\* executes and nothing else on an empty repository findAll returns n articles.
IsCreateStep ==
  /\ Len(articleCalls') = Len(articleCalls) + 1
  /\ articleCalls'[Len(articleCalls')].op = "create"

SuccessfulCreates ==
  {k \in DOMAIN articleCalls :
     articleCalls[k].op = "create" /\ articleCalls[k].thrown = Undefined}

CreateAddsOne ==
  IsCreateStep =>
    LET call == articleCalls'[Len(articleCalls')]
        before == findAll(articles)
        after == findAll(articles')
    IN IF call.thrown # Undefined THEN after = before
       ELSE /\ Len(after) = Len(before) + 1
            /\ SubSeq(after, 1, Len(before)) = before
            /\ after[Len(after)].title = call.input.title
            /\ after[Len(after)].content = call.input.content
            /\ after[Len(after)].isPublished = FALSE
            /\ \A k \in DOMAIN before : before[k].id # after[Len(after)].id

C22_CreateAddsOneArticle ==
  /\ []((\A k \in DOMAIN articleCalls : articleCalls[k].op = "create")
          => Len(findAll(articles)) = Cardinality(SuccessfulCreates))
  /\ [][CreateAddsOne]_vars

\* An execute, a save made by someone else and a second execute: three
\* articles, the last one the second execute's
C22_Witness ==
  /\ Len(articleCalls) = 3
  /\ articleCalls[1].op = "create" /\ articleCalls[1].thrown = Undefined
  /\ articleCalls[2].op = "save" /\ articleCalls[2].thrown = Undefined
  /\ articleCalls[3].op = "create" /\ articleCalls[3].thrown = Undefined
  /\ Len(findAll(articles)) = 3
  /\ findAll(articles)[3].title = "My Article"

\* C23: GetArticleQueryHandler.execute with id i resolves to the article most
\* recently saved under i, and rejects with Error 'Article not found' exactly
\* when no article has been saved under i.
SavedUnder(id, k) ==
  {j \in 1..(k - 1) : articleCalls[j].saved # Undefined /\ articleCalls[j].saved.id = id}

CorrelationIds == {Undefined, Str("cid-1"), Str("cid-2")}

RecordedError(logger, message, correlationId) ==
  \E k \in DOMAIN arrays[logger.errorEntries] :
    LET entry == arrays[logger.errorEntries][k]
    IN /\ entry.message = message
       /\ (~IsFalsy(EntryCorrelationId(entry))
             => EntryCorrelationId(entry) = correlationId)

C24_HasLoggedErrorIffRecorded ==
  \A l \in DOMAIN memLoggers, message \in MemMessages, correlationId \in CorrelationIds :
    hasLoggedError(memLoggers[l], message, correlationId)
      <=> RecordedError(memLoggers[l], message, correlationId)

\* The only error entry recorded has the message 'other', and
\* hasLoggedError('boom') answers true
C24_Witness ==
  /\ Len(arrays[memLoggers[1].errorEntries]) = 1
  /\ arrays[memLoggers[1].errorEntries][1].message = Str("other")
  /\ hasLoggedError(memLoggers[1], Str("boom"), Undefined)

\* C28: every logger of an InMemoryLogger family reports the same recorded
\* entries: an entry logged through any member is visible through every
\* member, and clear() on any member empties the entries seen by all.
NoEntries == [f \in EntryFields |-> <<>>]

SameEntries ==
  \A l, m \in DOMAIN memLoggers : EntriesOf(memLoggers[l]) = EntriesOf(memLoggers[m])

\* A step that records an entry: one of the four kinds of entries grows by
\* that entry for every member, and the other kinds stay as they were
LoggedIsVisibleToAll ==
  Entered' = Entered + 1 =>
    \E f \in EntryFields :
      \A m \in DOMAIN memLoggers :
        LET before == EntriesOf(memLoggers[m])
            after == EntriesOf(memLoggers[m])'
        IN /\ Len(after[f]) = Len(before[f]) + 1
           /\ SubSeq(after[f], 1, Len(before[f])) = before[f]
           /\ after[f][Len(after[f])] = arrays'[memLoggers[1][f]][Len(arrays'[memLoggers[1][f]])]
           /\ \A g \in EntryFields \ {f} : after[g] = before[g]

ClearEmptiesAll ==
  \A l \in DOMAIN memLoggers :
    MemClear(l) => \A m \in DOMAIN memLoggers' : EntriesOf(memLoggers[m])' = NoEntries

C28_FamilySharesEntries ==
  /\ []SameEntries
  /\ [][LoggedIsVisibleToAll /\ ClearEmptiesAll]_vars

\* A grandchild (it has the context of two createChild calls) that sees two
\* entries, a warning and an error
C28_Witness ==
  /\ Len(memLoggers) = 3
  /\ DOMAIN memLoggers[3].base.extraParams = {"moduleName", "className"}
  /\ Len(EntriesOf(memLoggers[3]).warnEntries) = 1
  /\ Len(EntriesOf(memLoggers[3]).errorEntries) = 1

\* C25: whenever the request carries a client-supplied correlation id that
\* the @CorrelationId() decorator returns, the filter's getCorrelationId
\* resolves that same id from the same request.
ClientSuppliedId(request) == ~IsFalsy(Get(request.headers, "x-correlation-id"))

C25_FilterMatchesDecorator ==
  \A k \in DOMAIN catchCalls :
    ClientSuppliedId(catchCalls[k].request) =>
      catchCalls[k].resolved = catchCalls[k].decorated

\* A request whose only correlation id is the x-correlation-id header: the
\* decorator returned it and getCorrelationId generated another one
C25_Witness ==
  \E k \in DOMAIN catchCalls :
    /\ catchCalls[k].decorated = Str("cid-x")
    /\ FilterGenerates(catchCalls[k].request)
    /\ catchCalls[k].resolved = Str(GeneratedUuids[catchCalls[k].uuids])

\* C26 as stated: the response's correlationId is request.raw.correlationId
\* when set, else the 'correlationid' header, else a generated UUID, and the
\* log entry, the Sentry report and the response body carry that same value.
IsGeneratedUuid(v) ==
  v.t = "string" /\ \E n \in DOMAIN GeneratedUuids : v.v = GeneratedUuids[n]

FromRequest(request, id) ==
  IF ~IsFalsy(Get(request.raw, "correlationId")) THEN id = request.raw.correlationId
  ELSE IF ~IsFalsy(Get(request.headers, "correlationid"))
    THEN id = request.headers["correlationid"]
  ELSE IsGeneratedUuid(id)

SameIdEverywhere(c) ==
  /\ c.logged.params.correlationId = c.response.correlationId
  /\ \A n \in DOMAIN c.sentry :
       c.sentry[n].context.request.requestId = c.response.correlationId
  /\ ~cfg.isLocal =>
       \A n \in DOMAIN c.records :
         c.records[n].payload.correlationId = c.response.correlationId

C27_DefaultIsReported ==
  \A k \in DOMAIN catchCalls :
    LET c == catchCalls[k]
    IN /\ c.kind = "default" => c.error.shouldReport /\ c.sentry # <<>>
       /\ c.sentry # <<>> <=> c.error.shouldReport
       /\ c.kind \in {"not-found", "published"} => c.sentry = <<>>

\* An error constructed without a reporting option went through catch
\* unreported
C27_Witness ==
  \E k \in DOMAIN catchCalls :
    /\ catchCalls[k].kind = "default"
    /\ ~catchCalls[k].error.shouldReport
    /\ catchCalls[k].sentry = <<>>
    /\ catchCalls[k].response.status = 500

\* C29: ZodValidationPipe.transform returns the value unchanged when the
\* argument type is not body, query or param; otherwise it validates with
\* the constructor's schema when there is one, else with the schema attached
\* to the metatype, returning the value unchanged when there is no metatype
\* or no attached schema; a schema violation is raised as a
\* CustomZodValidationException (400), any other error as it is.
SchemaInForce(c) ==
  IF c.schema # Undefined THEN c.schema
  ELSE IF c.metadata.metatype = Undefined THEN Undefined
  ELSE getSchemaFromMetadata(c.metadata.metatype)

C29_PipeValidates ==
  \A k \in DOMAIN pipeCalls :
    LET c == pipeCalls[k]
    IN IF c.metadata.type \notin {"body", "query", "param"} \/ SchemaInForce(c) = Undefined
         THEN c.thrown = Undefined /\ c.returned = c.value
       ELSE LET parsed == zParse(SchemaInForce(c), c.value)
            IN IF parsed.thrown = Undefined
                 THEN c.thrown = Undefined /\ c.returned = parsed.value
               ELSE IF parsed.thrown.t = "ZodError"
                 THEN /\ c.thrown.name = "CustomZodValidationException"
                      /\ c.thrown.status = 400
                      /\ c.returned = Undefined
               ELSE c.thrown = parsed.thrown /\ c.returned = Undefined

\* A manual-mode pipe with the id schema, applied to a body whose metatype
\* carries CreateArticleSchema and which that schema would accept: refused
\* with status 400
C29_Witness ==
  \E k \in DOMAIN pipeCalls :
    /\ pipeCalls[k].schema = IdSchema
    /\ pipeCalls[k].metadata = [type |-> "body", metatype |-> Class("CreateArticleDto")]
    /\ pipeCalls[k].value = Plain([title |-> Str("T"), content |-> Str("C")])
    /\ pipeCalls[k].thrown # Undefined
    /\ pipeCalls[k].thrown.status = 400

\* C30: on one in-memory double, calls issued without awaiting each other
\* consume the queued one-off results in the order the calls are issued:
\* each call takes the oldest entry still queued and removes it, and the
\* order in which the calls settle changes neither the queue nor what a call
\* was handed.
HandedOut(entry) ==
  IF entry.t = "promise" THEN [state |-> "rejected", value |-> entry.reason]
  ELSE [state |-> "resolved", value |-> IF dkind = "event" THEN Undefined ELSE entry]

CallTakesOldestEntry ==
  Len(dcalls') = Len(dcalls) + 1 =>
    LET issued == dcalls'[Len(dcalls')]
    IN IF resultQueue # <<>>
         THEN /\ issued.source = "queue"
              /\ issued.outcome = HandedOut(Head(resultQueue))
              /\ resultQueue' = Tail(resultQueue)
       ELSE /\ issued.source # "queue"
            /\ resultQueue' = resultQueue

SettlingKeepsWhatWasHandedOut ==
  (\E i \in DOMAIN dcalls : ~dcalls[i].settled /\ i \in DOMAIN dcalls' /\ dcalls'[i].settled) =>
    /\ resultQueue' = resultQueue
    /\ DOMAIN dcalls' = DOMAIN dcalls
    /\ \A j \in DOMAIN dcalls : /\ dcalls'[j].outcome = dcalls[j].outcome
                                /\ dcalls'[j].source = dcalls[j].source

C30_QueueHandedOutInIssueOrder ==
  [][CallTakesOldestEntry /\ SettlingKeepsWhatWasHandedOut]_vars

\* Two overlapping calls after a value and then a rejection were queued: the
\* first call issued got the value and the second the rejection, and the
\* second settled while the first was still pending
C30_Witness ==
  /\ Len(dcalls) = 2
  /\ dcalls[1].source = "queue" /\ dcalls[1].outcome.state = "resolved"
  /\ dcalls[2].source = "queue" /\ dcalls[2].outcome.state = "rejected"
  /\ ~dcalls[1].settled /\ dcalls[2].settled
  /\ resultQueue = <<>>
====
